---------------------------- MODULE Spec2Model ----------------------------
(***************************************************************************)
(* The media manager of avs (src/src/mediamgr/mediamgr.c): the audio       *)
(* thread's message handler, the audio router (update_route), the sound    *)
(* registry and the message queue that caller threads post to.             *)
(*                                                                         *)
(* The platform layer (mm_platform), the dictionary (dict) and the queue   *)
(* primitive (mqueue) are not part of mediamgr.c; they are modelled by     *)
(* the small operators whose names start with Platform, Dict and Mq.       *)
(***************************************************************************)
EXTENDS Integers, Sequences, FiniteSets, TLC

(***************************************************************************)
(* Enumerations                                                            *)
(***************************************************************************)

\* enum mediamgr_auplay, as listed by MMroute2Str and mediamgr_alloc
Routes == {"EARPIECE", "SPEAKER", "HEADSET", "BT", "LINEOUT", "SPDIF", "UNKNOWN"}

\* the routes update_route can ask the platform for
SwitchableRoutes == {"HEADSET", "EARPIECE", "SPEAKER", "BT"}

\* enum mediamgr_state, the cases of the MM_MARSHAL_CALL_STATE switch
MediamgrStates == {"NORMAL", "INCALL", "INVIDEOCALL", "HOLD", "RESUME"}

\* mm_route_update_event
RouteEvents ==
  {"MM_HEADSET_PLUGGED", "MM_HEADSET_UNPLUGGED", "MM_BT_DEVICE_CONNECTED",
   "MM_BT_DEVICE_DISCONNECTED", "MM_SPEAKER_ENABLE_REQUEST",
   "MM_SPEAKER_DISABLE_REQUEST", "MM_CALL_START", "MM_CALL_STOP",
   "MM_VIDEO_CALL_START", "MM_VIDEO_CALL_STOP"}

\* mm_marshal_id
MarshalIds ==
  {"EXIT", "PLAY_MEDIA", "PAUSE_MEDIA", "STOP_MEDIA", "CALL_STATE",
   "ENABLE_SPEAKER", "HEADSET_CONNECTED", "BT_DEVICE_CONNECTED",
   "REGISTER_MEDIA", "DEREGISTER_MEDIA", "SET_INTENSITY"}

\* the intensity thresholds of mediamgr_set_sound_mode (only their order
\* NONE < SOME < ALL is used)
MM_INTENSITY_THRES_ALL == 100
MM_INTENSITY_THRES_SOME == 50
MM_INTENSITY_THRES_NONE == 0

\* enum mediamgr_sound_mode -> threshold, the switch of mediamgr_set_sound_mode
SoundModeThreshold(mode) ==
  CASE mode = "ALL"  -> MM_INTENSITY_THRES_ALL
    [] mode = "SOME" -> MM_INTENSITY_THRES_SOME
    [] mode = "NONE" -> MM_INTENSITY_THRES_NONE

SoundModes == {"ALL", "SOME", "NONE"}

(***************************************************************************)
(* Input domains                                                           *)
(***************************************************************************)

\* sound names callers use
Names == {"ringtone", "notif"}

\* intensities callers register sounds with: at the NONE threshold, between
\* SOME and ALL, and above ALL
Intensities == {0, 60, 101}

\* priorities callers register sounds with
Priorities == {0, 1}

Callers == {"c1", "c2"}

\* struct sound, as filled from register_media_elem
SoundRec(mixing, incall, intensity, priority, is_call_media) ==
  [mixing |-> mixing, incall |-> incall, intensity |-> intensity,
   priority |-> priority, is_call_media |-> is_call_media]

AllSounds ==
  {SoundRec(mx, ic, it, pr, cm) :
     mx \in BOOLEAN, ic \in BOOLEAN, it \in Intensities, pr \in Priorities,
     cm \in BOOLEAN}

NoSound == SoundRec(FALSE, FALSE, 0, 0, FALSE)

\* struct mm_message together with its marshal id; from and seq identify
\* the posting call (caller thread and the number of its call).  Every
\* record of this module lists its fields in the order in which their names
\* first occur in the module.
Message(id, name, state, val, snd, intensity) ==
  [intensity |-> intensity, id |-> id, name |-> name, state |-> state,
   val |-> val, snd |-> snd, from |-> "c1", seq |-> 0]

NoMsg == Message("NONE", "", "NORMAL", FALSE, NoSound, 0)

MsgExit == Message("EXIT", "", "NORMAL", FALSE, NoSound, 0)
MsgPlay(n) == Message("PLAY_MEDIA", n, "NORMAL", FALSE, NoSound, 0)
MsgPause(n) == Message("PAUSE_MEDIA", n, "NORMAL", FALSE, NoSound, 0)
MsgStop(n) == Message("STOP_MEDIA", n, "NORMAL", FALSE, NoSound, 0)
MsgCallState(s) == Message("CALL_STATE", "", s, FALSE, NoSound, 0)
MsgEnableSpeaker(b) == Message("ENABLE_SPEAKER", "", "NORMAL", b, NoSound, 0)
MsgHeadsetConnected(b) == Message("HEADSET_CONNECTED", "", "NORMAL", b, NoSound, 0)
MsgBtDeviceConnected(b) == Message("BT_DEVICE_CONNECTED", "", "NORMAL", b, NoSound, 0)
MsgRegisterMedia(n, snd) == Message("REGISTER_MEDIA", n, "NORMAL", FALSE, snd, 0)
MsgDeregisterMedia(n) == Message("DEREGISTER_MEDIA", n, "NORMAL", FALSE, NoSound, 0)
MsgSetIntensity(mode) ==
  Message("SET_INTENSITY", "", "NORMAL", FALSE, NoSound, SoundModeThreshold(mode))

\* the same message as posted by caller c in its k-th call
Tagged(m, c, k) == [m EXCEPT !.from = c, !.seq = k]

(***************************************************************************)
(* State                                                                   *)
(***************************************************************************)

VARIABLES
  mq,               \* mm->mq: the messages pushed and not yet handled
  running,          \* the audio thread is inside re_main
  sounds,           \* mm->sounds: name -> struct sound
  playing,          \* platform: the names whose media object is playing
  call_state,       \* mm->call_state
  prev_call_state,  \* mm->prev_call_state
  router,           \* mm->router
  intensity_thres,  \* mm->intensity_thres
  route_changed_h,  \* mm->route_changed_h is not NULL
  plat_route,       \* platform: what mm_platform_get_route returns
  plat_incall,      \* platform: between enter_call and exit_call
  plat_reliable,    \* platform: an enable call always takes effect
  posted,           \* per caller: number of post calls made
  lost,             \* per caller: a post call failed
  \* observations of the last handled message
  tick,             \* flips with every handled message
  last,             \* the message
  was_playing,      \* the sounds playing before it was handled
  upd,              \* what update_route did while handling it
  rc_calls,         \* the routes passed to route_changed_h
  mcat_calls,       \* the states passed to mcat_changed_h
  plat_calls,       \* the calls made for the sound or the call, in order
  handled,          \* per caller: seq of its last handled message
  last_thres,       \* the threshold of the last handled SET_INTENSITY
  reg_snap,         \* the registry before a REGISTER / DEREGISTER pair
  hold_from,        \* the call state a HOLD was handled in, until the next
                    \* INCALL, INVIDEOCALL, NORMAL or RESUME message
  \* the life of the manager
  started,          \* mm->started
  has_mq,           \* mm->mq is allocated
  thread_pc,        \* where mediamgr_thread stands
  alloc_pc,         \* where mediamgr_alloc stands
  cnt,              \* mediamgr_alloc: the polls of started made so far
  observed_started, \* mediamgr_alloc left its loop by the break
  dtor_pc,          \* where mm_destructor stands
  freed,            \* the registry and the queue are released
  \* one media flow
  sdp_state,        \* the state of the SDP negotiation
  ice_ready,        \* what mediaflow_ice_ready returns
  dtls_ready,       \* what mediaflow_dtls_ready returns
  mf_started,       \* what mediaflow_is_started returns
  mf_op,            \* the last operation called on the flow
  mf_err,           \* what it returned
  mf_tick,          \* flips with every operation called on the flow
  \* one fake audio device, its two threads and the thread that calls it
  audioCallback_,   \* the registered transport (0: NULL)
  is_playing_,
  is_recording_,
  play_is_initialized_,
  rec_is_initialized_,
  play_tid_,        \* 0, or 1 for the thread pthread_create made
  rec_tid_,
  play_pc,          \* where playout_thread stands
  rec_pc,           \* where record_thread stands
  play_cb,          \* the transport the playout thread called last
  rec_cb,           \* the transport the record thread called last
  ctl,              \* the steps left of the call in progress
  ctl_op,           \* the function called last
  reg_is_playing,   \* RegisterAudioCallback: its local is_playing
  reg_is_recording, \* RegisterAudioCallback: its local is_recording
  reg_cb,           \* RegisterAudioCallback: its argument
  \* the route-changed handler and its argument, field by field
  route_changed_reg,  \* the registration that stored mm->route_changed_h
                      \* (0: none made in the run)
  route_changed_arg,  \* the registration that stored mm->route_changed_arg
  registrations,      \* calls of mediamgr_register_route_change_h begun
  reg_pc,           \* where the call in progress stands
  ur_pc,            \* where update_route stands in lines 378-379
  ur_h,             \* the handler it loaded for the call
  ur_arg,           \* the argument it loaded for the call
  rh_called         \* the last call of the handler it made

mgr_vars == <<sounds, playing, call_state, prev_call_state, router,
              intensity_thres, plat_route, plat_incall>>
obs_vars == <<tick, last, was_playing, upd, rc_calls, mcat_calls, plat_calls, handled,
              last_thres, reg_snap, hold_from>>
life_vars == <<started, has_mq, thread_pc, alloc_pc, cnt, observed_started,
               dtor_pc, freed>>
mf_vars == <<sdp_state, ice_ready, dtls_ready, mf_started, mf_op, mf_err,
             mf_tick>>
dev_vars == <<audioCallback_, is_playing_, is_recording_,
              play_is_initialized_, rec_is_initialized_, play_tid_, rec_tid_,
              play_pc, rec_pc, play_cb, rec_cb, ctl, ctl_op, reg_is_playing,
              reg_is_recording, reg_cb>>
rh_vars == <<route_changed_reg, route_changed_arg, registrations, reg_pc,
             ur_pc, ur_h, ur_arg, rh_called>>
side_vars == <<mf_vars, dev_vars, rh_vars>>
ext_vars == <<life_vars, side_vars>>
mm_vars == <<mq, running, mgr_vars, route_changed_h, plat_reliable, posted,
             lost, obs_vars, life_vars, rh_vars>>
vars == <<mq, running, mgr_vars, route_changed_h, plat_reliable, posted,
          lost, obs_vars, ext_vars>>

\* struct mm_route_state_machine (cur_route is written once, by
\* mediamgr_alloc, and never read)
RouterRec(pl, bt, hs, before) ==
  [prefer_loudspeaker |-> pl, bt_device_is_connected |-> bt,
   wired_hs_is_connected |-> hs, route_before_call |-> before]

InCall(cs) == cs = "INCALL" \/ cs = "INVIDEOCALL"

NoUpd ==
  [call_state |-> "NORMAL", called |-> FALSE, event |-> "NONE",
   cur_route |-> "UNKNOWN", wanted_route |-> "UNKNOWN",
   enable_calls |-> <<>>, ret |-> 0, observed |-> "UNKNOWN",
   effective |-> "UNKNOWN"]

\* a dictionary with no entry
EmptyDict == [n \in {} |-> NoSound]

NoSnap == [name |-> "", before |-> EmptyDict, armed |-> FALSE, paired |-> FALSE]

(***************************************************************************)
(* Platform layer, dictionary and queue primitives                         *)
(***************************************************************************)

\* mm_platform_enable_headset / earpiece / speaker / bt_sco, called with the
\* platform on route cur: the returned value and the route the platform is
\* on afterwards.  The switch takes effect, or the platform stays where it
\* was (reporting success or an error).
PlatformEnable(cur, wanted, reliable) ==
  IF reliable
    THEN {[ret |-> 0, route |-> wanted]}
    ELSE {[ret |-> 0, route |-> wanted], [ret |-> 0, route |-> cur],
          [ret |-> -1, route |-> cur]}

\* mm_platform_is_sound_playing
PlatformIsSoundPlaying(p, n) == n \in p

\* mm_platform_play_sound
PlatformPlaySound(p, n) == p \cup {n}

\* mm_platform_stop_sound
PlatformStopSound(p, n) == p \ {n}

\* mm_platform_pause_sound: a paused sound is not playing
PlatformPauseSound(p, n) == p \ {n}

\* dict_lookup
DictLookup(d, n) == n \in DOMAIN d

\* mm_platform_registerMedia: the dictionaries that can result.  A new name
\* gets its entry; for a name already present the old entry is kept or
\* replaced.
PlatformRegisterMedia(d, n, snd) ==
  LET added == [k \in DOMAIN d \cup {n} |-> IF k = n THEN snd ELSE d[k]]
  IN  IF n \in DOMAIN d THEN {d, added} ELSE {added}

\* mm_platform_unregisterMedia: the entry is removed
PlatformUnregisterMedia(d, n) == [k \in DOMAIN d \ {n} |-> d[k]]

\* mqueue_push: the message is appended to the queue
MqPush(q, m) == Append(q, m)

(***************************************************************************)
(* The audio router                                                        *)
(***************************************************************************)

\* MM_HEADSET_UNPLUGGED without the video-call rule (prefer_loudspeaker is
\* not forced during a video call)
WantedOnHeadsetUnplugged_NoVideoRule(r, cs, cur) ==
  IF cur = "SPEAKER" THEN "SPEAKER"
  ELSE IF r.bt_device_is_connected THEN "BT"
  ELSE IF r.prefer_loudspeaker THEN "SPEAKER"
  ELSE "EARPIECE"

\* case MM_HEADSET_UNPLUGGED: the wanted route
WantedOnHeadsetUnplugged(r, cs, cur) ==
  LET pl == IF cs = "INVIDEOCALL" THEN TRUE ELSE r.prefer_loudspeaker
  IN  IF cur = "SPEAKER" THEN "SPEAKER"
      ELSE IF r.bt_device_is_connected THEN "BT"
      ELSE IF pl THEN "SPEAKER"
      ELSE "EARPIECE"

\* case MM_BT_DEVICE_CONNECTED: the wanted route
WantedOnBtConnected(cs, cur) ==
  IF cs = "INCALL" \/ cs = "INVIDEOCALL" THEN "BT" ELSE cur

\* case MM_BT_DEVICE_DISCONNECTED: the wanted route
WantedOnBtDisconnected(r) ==
  IF r.wired_hs_is_connected THEN "HEADSET"
  ELSE IF r.prefer_loudspeaker THEN "SPEAKER"
  ELSE "EARPIECE"

\* MM_SPEAKER_DISABLE_REQUEST with the two tests swapped (BT before headset)
WantedOnSpeakerDisable_BtFirst(r) ==
  IF r.bt_device_is_connected THEN "BT"
  ELSE IF r.wired_hs_is_connected THEN "HEADSET"
  ELSE "EARPIECE"

\* case MM_SPEAKER_DISABLE_REQUEST: the wanted route
WantedOnSpeakerDisable(r) ==
  IF r.wired_hs_is_connected THEN "HEADSET"
  ELSE IF r.bt_device_is_connected THEN "BT"
  ELSE "EARPIECE"

\* MM_CALL_START without the headset test
WantedOnCallStart_NoHeadset(r) ==
  IF r.bt_device_is_connected THEN "BT"
  ELSE IF r.prefer_loudspeaker THEN "SPEAKER"
  ELSE "EARPIECE"

\* case MM_CALL_START: the wanted route
WantedOnCallStart(r) ==
  IF r.wired_hs_is_connected THEN "HEADSET"
  ELSE IF r.bt_device_is_connected THEN "BT"
  ELSE IF r.prefer_loudspeaker THEN "SPEAKER"
  ELSE "EARPIECE"

\* MM_VIDEO_CALL_START consulting prefer_loudspeaker as MM_CALL_START does
WantedOnVideoCallStart_HonoursPreference(r) ==
  IF r.wired_hs_is_connected THEN "HEADSET"
  ELSE IF r.bt_device_is_connected THEN "BT"
  ELSE IF r.prefer_loudspeaker THEN "SPEAKER"
  ELSE "EARPIECE"

\* case MM_VIDEO_CALL_START: the wanted route
WantedOnVideoCallStart(r) ==
  IF r.wired_hs_is_connected THEN "HEADSET"
  ELSE IF r.bt_device_is_connected THEN "BT"
  ELSE "SPEAKER"

\* update_route, the switch on the event: the wanted route
WantedRoute(ev, r, cs, cur) ==
  CASE ev = "MM_HEADSET_PLUGGED" -> "HEADSET"
    [] ev = "MM_HEADSET_UNPLUGGED" -> WantedOnHeadsetUnplugged(r, cs, cur)
    [] ev = "MM_BT_DEVICE_CONNECTED" -> WantedOnBtConnected(cs, cur)
    [] ev = "MM_BT_DEVICE_DISCONNECTED" -> WantedOnBtDisconnected(r)
    [] ev = "MM_SPEAKER_ENABLE_REQUEST" -> "SPEAKER"
    [] ev = "MM_SPEAKER_DISABLE_REQUEST" -> WantedOnSpeakerDisable(r)
    [] ev = "MM_CALL_START" -> WantedOnCallStart(r)
    [] ev = "MM_VIDEO_CALL_START" -> WantedOnVideoCallStart(r)
    [] ev \in {"MM_CALL_STOP", "MM_VIDEO_CALL_STOP"} -> "EARPIECE"
    [] OTHER -> cur

\* update_route, the switch on the event: the router fields afterwards
RouterAfter(ev, r, cs, cur) ==
  CASE ev = "MM_HEADSET_PLUGGED" ->
         [r EXCEPT !.wired_hs_is_connected = TRUE,
                   !.prefer_loudspeaker = FALSE]
    [] ev = "MM_HEADSET_UNPLUGGED" ->
         [r EXCEPT !.wired_hs_is_connected = FALSE,
                   !.prefer_loudspeaker =
                      IF cs = "INVIDEOCALL" THEN TRUE ELSE @]
    [] ev = "MM_BT_DEVICE_CONNECTED" ->
         [r EXCEPT !.bt_device_is_connected = TRUE]
    [] ev = "MM_BT_DEVICE_DISCONNECTED" ->
         [r EXCEPT !.bt_device_is_connected = FALSE]
    [] ev = "MM_SPEAKER_ENABLE_REQUEST" ->
         [r EXCEPT !.prefer_loudspeaker = TRUE]
    [] ev = "MM_SPEAKER_DISABLE_REQUEST" ->
         [r EXCEPT !.prefer_loudspeaker = FALSE]
    [] ev = "MM_CALL_START" ->
         [r EXCEPT !.route_before_call = cur]
    [] ev = "MM_VIDEO_CALL_START" ->
         [r EXCEPT !.route_before_call = cur,
                   !.prefer_loudspeaker = FALSE]
    [] ev \in {"MM_CALL_STOP", "MM_VIDEO_CALL_STOP"} ->
         [r EXCEPT !.prefer_loudspeaker = FALSE]
    [] OTHER -> r

\* the route check without the call-state test (the wanted route is
\* reported in a call too)
EffectiveRoute_AlwaysOptimistic(wanted, observed, ret, cs) ==
  IF wanted # observed /\ ret >= 0 THEN wanted ELSE observed

\* update_route, "Check that we got what we asked for": the route reported
\* to the route-changed handler
EffectiveRoute(wanted, observed, ret, cs) ==
  IF wanted # observed /\ ret >= 0
    THEN IF cs # "INCALL" /\ cs # "INVIDEOCALL" THEN wanted ELSE observed
    ELSE observed

\* update_route(mm, ev), called while mm->call_state is cs
update_route(ev, cs) ==
  LET cur == plat_route
      wanted == WantedRoute(ev, router, cs, cur)
      asked == wanted # cur /\ wanted \in SwitchableRoutes
      outcomes == IF asked THEN PlatformEnable(cur, wanted, plat_reliable)
                  ELSE {[ret |-> 0, route |-> cur]}
  IN  /\ router' = RouterAfter(ev, router, cs, cur)
      /\ \E o \in outcomes :
           LET eff == EffectiveRoute(wanted, o.route, o.ret, cs)
           IN  /\ plat_route' = o.route
               /\ upd' = [call_state |-> cs, called |-> TRUE, event |-> ev,
                          cur_route |-> cur, wanted_route |-> wanted,
                          enable_calls |->
                            IF asked THEN <<wanted>> ELSE <<>>,
                          ret |-> o.ret,
                          observed |-> o.route, effective |-> eff]
               /\ rc_calls' = IF route_changed_h THEN <<eff>> ELSE <<>>

\* a handler path that does not call update_route
NoRouteUpdate ==
  /\ UNCHANGED <<router, plat_route>>
  /\ upd' = NoUpd
  /\ rc_calls' = <<>>

(***************************************************************************)
(* The sound registry                                                      *)
(***************************************************************************)

\* stop_playing_during_call with its test of incall inverted
StopPlayingDuringCall_InCallSounds(d, p) ==
  p \ {n \in DOMAIN d : d[n].incall /\ PlatformIsSoundPlaying(p, n)}

\* dict_apply(sounds, stop_playing_during_call): the sounds left playing
StopPlayingDuringCall(d, p) ==
  p \ {n \in DOMAIN d : ~d[n].incall /\ PlatformIsSoundPlaying(p, n)}

\* stop_play stopping the exclusive sounds only
StopPlay_ExclusiveOnly(d, p) ==
  p \ {n \in DOMAIN d : PlatformIsSoundPlaying(p, n) /\ ~d[n].mixing}

\* dict_apply(sounds, stop_play): the sounds left playing
StopPlay(d, p) ==
  p \ {n \in DOMAIN d : PlatformIsSoundPlaying(p, n)}

\* check_play_mode not telling an exclusive sound from a mixing one
check_play_mode_AllMixing(d, p) ==
  IF \E n \in DOMAIN d : PlatformIsSoundPlaying(p, n)
    THEN "MM_PLAYBACK_MIXING"
    ELSE "MM_PLAYBACK_NONE"

\* dict_apply(sounds, check_play_mode): the mode found.  The walk stops at
\* the first exclusive sound; a mixing sound met before it only sets MIXING,
\* which the exclusive one overwrites, so the order of the walk is immaterial.
check_play_mode(d, p) ==
  IF \E n \in DOMAIN d : PlatformIsSoundPlaying(p, n) /\ ~d[n].mixing
    THEN "MM_PLAYBACK_EXCLUSIVE"
    ELSE IF \E n \in DOMAIN d : PlatformIsSoundPlaying(p, n) /\ d[n].mixing
      THEN "MM_PLAYBACK_MIXING"
      ELSE "MM_PLAYBACK_NONE"

\* mediamgr_can_play_sound with the priority test first
mediamgr_can_play_sound_PriorityFirst(d, p, thres, cs, to_play) ==
  IF to_play.priority > 0 THEN TRUE
  ELSE IF to_play.intensity > thres THEN FALSE
  ELSE IF ~to_play.incall /\ (cs = "INCALL" \/ cs = "INVIDEOCALL") THEN FALSE
  ELSE LET mode == check_play_mode(d, p)
       IN  CASE mode = "MM_PLAYBACK_NONE" -> TRUE
             [] mode = "MM_PLAYBACK_EXCLUSIVE" -> FALSE
             [] mode = "MM_PLAYBACK_MIXING" -> to_play.mixing

\* mediamgr_can_play_sound
mediamgr_can_play_sound(d, p, thres, cs, to_play) ==
  IF to_play.intensity > thres THEN FALSE
  ELSE IF ~to_play.incall /\ (cs = "INCALL" \/ cs = "INVIDEOCALL") THEN FALSE
  ELSE IF to_play.priority > 0 THEN TRUE
  ELSE LET mode == check_play_mode(d, p)
       IN  CASE mode = "MM_PLAYBACK_NONE" -> TRUE
             [] mode = "MM_PLAYBACK_EXCLUSIVE" -> FALSE
             [] mode = "MM_PLAYBACK_MIXING" -> to_play.mixing

(***************************************************************************)
(* mqueue_handler, one operator per case of its switch.  Each says what    *)
(* the case does to the manager and the platform, and what it calls.       *)
(***************************************************************************)

\* case MM_MARSHAL_EXIT: re_cancel()
HandleExit(m) ==
  /\ running' = FALSE
  /\ UNCHANGED <<sounds, playing, call_state, prev_call_state,
                 intensity_thres, plat_incall>>
  /\ NoRouteUpdate
  /\ mcat_calls' = <<>>
  /\ plat_calls' = <<>>

\* the PLAY case starting the sound before it enters call mode
PlayCalls_PlayFirst(snd, cs) ==
  <<"play_sound">> \o
  (IF snd.is_call_media /\ cs # "INCALL" /\ cs # "INVIDEOCALL"
     THEN <<"enter_call", "update_route">>
     ELSE <<>>)

\* case MM_MARSHAL_PLAY_MEDIA, lines 709-715: the calls made for an accepted
\* sound, in the order of the statements
PlayCalls(snd, cs) ==
  (IF snd.is_call_media /\ cs # "INCALL" /\ cs # "INVIDEOCALL"
     THEN <<"enter_call", "update_route">>
     ELSE <<>>) \o
  <<"play_sound">>

\* case MM_MARSHAL_STOP_MEDIA, lines 743-749: the calls made for a
\* registered sound, in the order of the statements
StopCalls(snd, cs) ==
  <<"stop_sound">> \o
  (IF snd.is_call_media /\ cs # "INCALL" /\ cs # "INVIDEOCALL"
     THEN <<"exit_call", "update_route">>
     ELSE <<>>)

\* case MM_MARSHAL_PLAY_MEDIA
HandlePlayMedia(m) ==
  /\ UNCHANGED <<running, sounds, call_state, prev_call_state,
                 intensity_thres>>
  /\ mcat_calls' = <<>>
  /\ IF ~DictLookup(sounds, m.name)
       THEN /\ UNCHANGED <<playing, plat_incall>>
            /\ NoRouteUpdate
            /\ plat_calls' = <<>>
       ELSE LET curr_sound == sounds[m.name]
            IN  IF mediamgr_can_play_sound(sounds, playing, intensity_thres,
                                           call_state, curr_sound)
                  THEN /\ playing' =
                            PlatformPlaySound(
                              IF curr_sound.priority > 0
                                THEN StopPlay(sounds, playing)
                                ELSE playing,
                              m.name)
                       /\ IF curr_sound.is_call_media
                             /\ call_state # "INCALL"
                             /\ call_state # "INVIDEOCALL"
                            THEN /\ plat_incall' = TRUE
                                 /\ update_route("MM_CALL_START", call_state)
                            ELSE /\ UNCHANGED plat_incall
                                 /\ NoRouteUpdate
                       /\ plat_calls' = PlayCalls(curr_sound, call_state)
                  ELSE /\ UNCHANGED <<playing, plat_incall>>
                       /\ NoRouteUpdate
                       /\ plat_calls' = <<>>

\* case MM_MARSHAL_PAUSE_MEDIA
HandlePauseMedia(m) ==
  /\ UNCHANGED <<running, sounds, call_state, prev_call_state,
                 intensity_thres, plat_incall>>
  /\ mcat_calls' = <<>>
  /\ plat_calls' = <<>>
  /\ NoRouteUpdate
  /\ playing' = IF DictLookup(sounds, m.name)
                  THEN PlatformPauseSound(playing, m.name)
                  ELSE playing

\* case MM_MARSHAL_STOP_MEDIA without the test of what dict_lookup found:
\* whatever the name, the sound is stopped and call mode is left
HandleStopMedia_NoLookup(m) ==
  /\ UNCHANGED <<running, sounds, call_state, prev_call_state,
                 intensity_thres>>
  /\ mcat_calls' = <<>>
  /\ playing' = PlatformStopSound(playing, m.name)
  /\ IF call_state # "INCALL" /\ call_state # "INVIDEOCALL"
       THEN /\ plat_incall' = FALSE
            /\ update_route("MM_CALL_STOP", call_state)
            /\ plat_calls' = <<"stop_sound", "exit_call", "update_route">>
       ELSE /\ UNCHANGED plat_incall
            /\ NoRouteUpdate
            /\ plat_calls' = <<"stop_sound">>

\* case MM_MARSHAL_STOP_MEDIA
HandleStopMedia(m) ==
  /\ UNCHANGED <<running, sounds, call_state, prev_call_state,
                 intensity_thres>>
  /\ mcat_calls' = <<>>
  /\ IF ~DictLookup(sounds, m.name)
       THEN /\ UNCHANGED <<playing, plat_incall>>
            /\ NoRouteUpdate
            /\ plat_calls' = <<>>
       ELSE /\ playing' = PlatformStopSound(playing, m.name)
            /\ IF sounds[m.name].is_call_media
                  /\ call_state # "INCALL"
                  /\ call_state # "INVIDEOCALL"
                 THEN /\ plat_incall' = FALSE
                      /\ update_route("MM_CALL_STOP", call_state)
                 ELSE /\ UNCHANGED plat_incall
                      /\ NoRouteUpdate
            /\ plat_calls' = StopCalls(sounds[m.name], call_state)

\* case MEDIAMGR_STATE_HOLD with every HOLD message putting the call on hold
HoldAccepted_Always(cs) == TRUE

\* case MEDIAMGR_STATE_HOLD: the test on mm->call_state
HoldAccepted(cs) == cs = "INCALL" \/ cs = "INVIDEOCALL"

\* case MEDIAMGR_STATE_RESUME with every RESUME message resuming
ResumeAccepted_Always(cs) == TRUE

\* case MEDIAMGR_STATE_RESUME: the test on mm->call_state
ResumeAccepted(cs) == cs = "HOLD"

\* case MEDIAMGR_STATE_RESUME storing the state of the message
ResumedState_Requested(prev) == "RESUME"

\* case MEDIAMGR_STATE_RESUME: mm->call_state = mm->prev_call_state
ResumedState(prev) == prev

\* case MM_MARSHAL_CALL_STATE: what the inner switch decides for the state
\* asked for, given mm->call_state and mm->prev_call_state
CallStateSwitch(state, cs, prev) ==
  LET none == [call_state |-> cs, prev_call_state |-> prev,
               event |-> "NONE", enter |-> FALSE, exit |-> FALSE,
               has_changed |-> FALSE, fire_callback |-> FALSE]
  IN  CASE state = "INCALL" ->
             [none EXCEPT !.call_state = "INCALL", !.enter = TRUE,
                          !.event = "MM_CALL_START", !.has_changed = TRUE,
                          !.fire_callback = TRUE]
        [] state = "INVIDEOCALL" ->
             [none EXCEPT !.call_state = "INVIDEOCALL", !.enter = TRUE,
                          !.event = "MM_VIDEO_CALL_START",
                          !.has_changed = TRUE, !.fire_callback = FALSE]
        [] state = "NORMAL" ->
             [none EXCEPT !.call_state = "NORMAL", !.exit = TRUE,
                          !.event = "MM_CALL_STOP", !.has_changed = TRUE,
                          !.fire_callback = TRUE]
        [] state = "HOLD" ->
             IF HoldAccepted(cs)
               THEN [none EXCEPT !.prev_call_state = cs,
                                 !.call_state = "HOLD",
                                 !.event = "MM_CALL_STOP",
                                 !.has_changed = TRUE,
                                 !.fire_callback = TRUE]
               ELSE none
        [] state = "RESUME" ->
             IF ResumeAccepted(cs)
               THEN [none EXCEPT !.call_state = ResumedState(prev),
                                 !.enter = TRUE,
                                 !.event = "MM_CALL_START",
                                 !.has_changed = TRUE,
                                 !.fire_callback = TRUE]
               ELSE none
        [] OTHER -> none

\* the calls after the inner switch with the handler called before the
\* routing update
CallStateCalls_HandlerFirst(d) ==
  (IF d.fire_callback THEN <<"mcat_changed_h">> ELSE <<>>) \o
  (IF d.has_changed THEN <<"update_route">> ELSE <<>>)

\* the calls after the inner switch of MM_MARSHAL_CALL_STATE, in order
CallStateCalls(d) ==
  (IF d.has_changed THEN <<"update_route">> ELSE <<>>) \o
  (IF d.fire_callback THEN <<"mcat_changed_h">> ELSE <<>>)

\* case MM_MARSHAL_CALL_STATE
HandleCallState(m) ==
  LET d == CallStateSwitch(m.state, call_state, prev_call_state)
  IN  /\ UNCHANGED <<running, sounds, intensity_thres>>
      /\ call_state' = d.call_state
      /\ prev_call_state' = d.prev_call_state
      \* mediamgr_enter_call / mediamgr_exit_call
      /\ playing' = IF d.enter THEN StopPlayingDuringCall(sounds, playing)
                    ELSE playing
      /\ plat_incall' = IF d.enter THEN TRUE
                        ELSE IF d.exit THEN FALSE ELSE plat_incall
      /\ plat_calls' = (IF d.enter THEN <<"enter_call">>
                        ELSE IF d.exit THEN <<"exit_call">> ELSE <<>>) \o
                       CallStateCalls(d)
      /\ IF d.has_changed THEN update_route(d.event, d.call_state)
         ELSE NoRouteUpdate
      /\ mcat_calls' = IF d.fire_callback THEN <<m.state>> ELSE <<>>

\* the route event of a bool message
BoolEvent(val, on, off) == IF val THEN on ELSE off

\* case MM_MARSHAL_ENABLE_SPEAKER
HandleEnableSpeaker(m) ==
  /\ UNCHANGED <<running, sounds, playing, call_state, prev_call_state,
                 intensity_thres, plat_incall>>
  /\ mcat_calls' = <<>>
  /\ plat_calls' = <<>>
  /\ update_route(BoolEvent(m.val, "MM_SPEAKER_ENABLE_REQUEST",
                            "MM_SPEAKER_DISABLE_REQUEST"), call_state)

\* case MM_MARSHAL_HEADSET_CONNECTED
HandleHeadsetConnected(m) ==
  /\ UNCHANGED <<running, sounds, playing, call_state, prev_call_state,
                 intensity_thres, plat_incall>>
  /\ mcat_calls' = <<>>
  /\ plat_calls' = <<>>
  /\ update_route(BoolEvent(m.val, "MM_HEADSET_PLUGGED",
                            "MM_HEADSET_UNPLUGGED"), call_state)

\* case MM_MARSHAL_BT_DEVICE_CONNECTED
HandleBtDeviceConnected(m) ==
  /\ UNCHANGED <<running, sounds, playing, call_state, prev_call_state,
                 intensity_thres, plat_incall>>
  /\ mcat_calls' = <<>>
  /\ plat_calls' = <<>>
  /\ update_route(BoolEvent(m.val, "MM_BT_DEVICE_CONNECTED",
                            "MM_BT_DEVICE_DISCONNECTED"), call_state)

\* case MM_MARSHAL_REGISTER_MEDIA
HandleRegisterMedia(m) ==
  /\ UNCHANGED <<running, playing, call_state, prev_call_state,
                 intensity_thres, plat_incall>>
  /\ mcat_calls' = <<>>
  /\ plat_calls' = <<>>
  /\ NoRouteUpdate
  /\ sounds' \in PlatformRegisterMedia(sounds, m.name, m.snd)

\* MM_MARSHAL_DEREGISTER_MEDIA without the call that removes the entry
HandleDeregisterMedia_Nothing(m) ==
  /\ UNCHANGED <<running, sounds, playing, call_state, prev_call_state,
                 intensity_thres, plat_incall>>
  /\ mcat_calls' = <<>>
  /\ plat_calls' = <<>>
  /\ NoRouteUpdate

\* case MM_MARSHAL_DEREGISTER_MEDIA
HandleDeregisterMedia(m) ==
  /\ UNCHANGED <<running, playing, call_state, prev_call_state,
                 intensity_thres, plat_incall>>
  /\ mcat_calls' = <<>>
  /\ plat_calls' = <<>>
  /\ NoRouteUpdate
  /\ sounds' = PlatformUnregisterMedia(sounds, m.name)

\* case MM_MARSHAL_SET_INTENSITY
HandleSetIntensity(m) ==
  /\ UNCHANGED <<running, sounds, playing, call_state, prev_call_state,
                 plat_incall>>
  /\ mcat_calls' = <<>>
  /\ plat_calls' = <<>>
  /\ NoRouteUpdate
  /\ intensity_thres' = m.intensity

\* what is recorded about the message being handled
Observe(m) ==
  /\ tick' = ~tick
  /\ last' = m
  /\ was_playing' = playing
  /\ handled' = [handled EXCEPT ![m.from] = m.seq]
  /\ last_thres' = IF m.id = "SET_INTENSITY" THEN m.intensity ELSE last_thres
  /\ reg_snap' =
       IF m.id = "REGISTER_MEDIA"
         THEN [name |-> m.name, before |-> sounds, armed |-> TRUE,
               paired |-> FALSE]
       ELSE IF m.id = "DEREGISTER_MEDIA" /\ reg_snap.armed
               /\ reg_snap.name = m.name
         THEN [reg_snap EXCEPT !.armed = FALSE, !.paired = TRUE]
       ELSE NoSnap
  /\ hold_from' =
       IF m.id # "CALL_STATE" THEN hold_from
       ELSE IF m.state = "HOLD"
         THEN IF call_state \in {"INCALL", "INVIDEOCALL"} THEN call_state
              ELSE hold_from
       ELSE "NONE"

\* mqueue_handler(id, data, mm)
mqueue_handler(m) ==
  /\ Observe(m)
  /\ CASE m.id = "EXIT" -> HandleExit(m)
       [] m.id = "PLAY_MEDIA" -> HandlePlayMedia(m)
       [] m.id = "PAUSE_MEDIA" -> HandlePauseMedia(m)
       [] m.id = "STOP_MEDIA" -> HandleStopMedia(m)
       [] m.id = "CALL_STATE" -> HandleCallState(m)
       [] m.id = "ENABLE_SPEAKER" -> HandleEnableSpeaker(m)
       [] m.id = "HEADSET_CONNECTED" -> HandleHeadsetConnected(m)
       [] m.id = "BT_DEVICE_CONNECTED" -> HandleBtDeviceConnected(m)
       [] m.id = "REGISTER_MEDIA" -> HandleRegisterMedia(m)
       [] m.id = "DEREGISTER_MEDIA" -> HandleDeregisterMedia(m)
       [] m.id = "SET_INTENSITY" -> HandleSetIntensity(m)

(***************************************************************************)
(* Threads                                                                 *)
(***************************************************************************)

\* mediamgr_post_media_command and the other posting functions
\* (mediamgr_play_media .. mediamgr_set_sound_mode): caller c's next call
\* pushes one message
PostMessage(c, m) ==
  /\ mq' = MqPush(mq, Tagged(m, c, posted[c] + 1))
  /\ posted' = [posted EXCEPT ![c] = @ + 1]
  /\ UNCHANGED <<running, mgr_vars, route_changed_h, plat_reliable, lost,
                 obs_vars, ext_vars>>

\* a posting function whose mem_zalloc or mqueue_push fails: the error is
\* logged and nothing is queued
PostFails(c) ==
  /\ posted' = [posted EXCEPT ![c] = @ + 1]
  /\ lost' = [lost EXCEPT ![c] = TRUE]
  /\ UNCHANGED <<mq, running, mgr_vars, route_changed_h, plat_reliable,
                 obs_vars, ext_vars>>

\* the audio thread taking the newest message instead of the oldest
HandleNext_Newest ==
  /\ running
  /\ mq # <<>>
  /\ mqueue_handler(mq[Len(mq)])
  /\ mq' = SubSeq(mq, 1, Len(mq) - 1)
  /\ UNCHANGED <<route_changed_h, plat_reliable, posted, lost, ext_vars>>

\* mediamgr_thread inside re_main: the audio thread takes the oldest message
\* and runs mqueue_handler on it
HandleNext ==
  /\ running
  /\ mq # <<>>
  /\ mqueue_handler(Head(mq))
  /\ mq' = Tail(mq)
  /\ UNCHANGED <<route_changed_h, plat_reliable, posted, lost, ext_vars>>

\* a caller posts m to an idle audio thread, which handles it before
\* anything else is posted
Serve(m) ==
  /\ running
  /\ mq = <<>>
  /\ mqueue_handler(m)
  /\ UNCHANGED <<mq, route_changed_h, plat_reliable, posted, lost,
                 ext_vars>>

\* mediamgr_register_route_change_h (h: the handler is not NULL)
mediamgr_register_route_change_h(h) ==
  /\ route_changed_h' = h
  /\ UNCHANGED <<mq, running, mgr_vars, plat_reliable, posted, lost,
                 obs_vars, ext_vars>>

(***************************************************************************)
(* Initial states                                                          *)
(***************************************************************************)

\* the manager after mediamgr_alloc returned with the audio thread inside
\* re_main, and before its last reference is dropped
Allocated ==
  /\ started = TRUE
  /\ has_mq = TRUE
  /\ thread_pc = "loop"
  /\ alloc_pc = "returned"
  /\ cnt = 0
  /\ observed_started = TRUE
  /\ dtor_pc = "none"
  /\ freed = FALSE

\* a media flow as its allocation leaves it
InitFlow ==
  /\ sdp_state = "INIT"
  /\ ice_ready = FALSE
  /\ dtls_ready = FALSE
  /\ mf_started = FALSE
  /\ mf_op = "alloc"
  /\ mf_err = "OK"
  /\ mf_tick = FALSE

\* fake_audiodevice::fake_audiodevice: the device as constructed
fake_audiodevice ==
  /\ audioCallback_ = 0
  /\ is_playing_ = FALSE
  /\ is_recording_ = FALSE
  /\ play_is_initialized_ = FALSE
  /\ rec_is_initialized_ = FALSE
  /\ play_tid_ = 0
  /\ rec_tid_ = 0
  /\ play_pc = "none"
  /\ rec_pc = "none"
  /\ play_cb = 0
  /\ rec_cb = 0
  /\ ctl = <<>>
  /\ ctl_op = "fake_audiodevice"
  /\ reg_is_playing = FALSE
  /\ reg_is_recording = FALSE
  /\ reg_cb = 0

\* routes the platform may be on when the manager is created
InitRoutes == {"EARPIECE", "SPEAKER", "UNKNOWN"}

\* the fields that mediamgr_alloc leaves as mem_zalloc made them, with
\* registry d and the platform on route r
InitFields(d, r, reliable, handler) ==
  /\ mq = <<>>
  /\ sounds = d
  /\ playing = {}
  /\ call_state = "NORMAL"
  /\ prev_call_state = "NORMAL"
  /\ router = RouterRec(FALSE, FALSE, FALSE, "EARPIECE")
  /\ route_changed_h = handler
  /\ plat_route = r
  /\ plat_incall = FALSE
  /\ plat_reliable = reliable
  /\ posted = [c \in Callers |-> 0]
  /\ lost = [c \in Callers |-> FALSE]
  /\ tick = FALSE
  /\ last = NoMsg
  /\ was_playing = {}
  /\ upd = NoUpd
  /\ rc_calls = <<>>
  /\ mcat_calls = <<>>
  /\ plat_calls = <<>>
  /\ handled = [c \in Callers |-> 0]
  /\ last_thres = MM_INTENSITY_THRES_ALL
  /\ reg_snap = NoSnap
  /\ hold_from = "NONE"
  /\ route_changed_reg = 0
  /\ route_changed_arg = 0
  /\ registrations = 0
  /\ reg_pc = "idle"
  /\ ur_pc = "idle"
  /\ ur_h = <<FALSE, 0>>
  /\ ur_arg = 0
  /\ rh_called = <<>>

\* the manager as mediamgr_alloc returns it (mem_zalloc, then lines 173-191),
\* with registry d already filled by the callers and the platform on route r
InitWith(d, r, reliable, handler) ==
  /\ InitFields(d, r, reliable, handler)
  /\ running = TRUE
  /\ intensity_thres = MM_INTENSITY_THRES_ALL
  /\ Allocated
  /\ InitFlow
  /\ fake_audiodevice

Init == \E r \in InitRoutes, rel \in BOOLEAN : InitWith(EmptyDict, r, rel, FALSE)

(***************************************************************************)
(* SpecRouter: the routing messages and the call states, each message      *)
(* handled as soon as it is posted; the route-changed handler is           *)
(* registered and the platform may ignore or refuse a switch.              *)
(***************************************************************************)

\* one call-media sound, whose PLAY and STOP are routing events too
RouterSounds == [n \in {"ringtone"} |-> SoundRec(FALSE, TRUE, 0, 1, TRUE)]

InitRouter == \E r \in InitRoutes : InitWith(RouterSounds, r, FALSE, TRUE)

ServeHeadsetConnected == \E b \in BOOLEAN : Serve(MsgHeadsetConnected(b))
ServeBtDeviceConnected == \E b \in BOOLEAN : Serve(MsgBtDeviceConnected(b))
ServeEnableSpeaker == \E b \in BOOLEAN : Serve(MsgEnableSpeaker(b))
ServeCallState == \E st \in MediamgrStates : Serve(MsgCallState(st))
ServePlayMedia == \E n \in Names : Serve(MsgPlay(n))
ServeStopMedia == \E n \in Names : Serve(MsgStop(n))

NextRouter ==
  \/ ServeHeadsetConnected
  \/ ServeBtDeviceConnected
  \/ ServeEnableSpeaker
  \/ ServeCallState
  \/ ServePlayMedia
  \/ ServeStopMedia

SpecRouter == InitRouter /\ [][NextRouter]_vars

(***************************************************************************)
(* Claims about the audio router                                           *)
(***************************************************************************)

\* a step in which the audio thread handles a message
HandlerStep == tick' # tick

\* the transition table of the routing controller: event ev arrives with the
\* router fields r, call state cs and the platform on route cur; w is the
\* wanted route and r2 the router fields afterwards
TableRow(ev, r, cs, cur, w, r2) ==
  CASE ev = "MM_HEADSET_PLUGGED" ->
         /\ w = "HEADSET"
         /\ r2.wired_hs_is_connected
         /\ ~r2.prefer_loudspeaker
    [] ev = "MM_HEADSET_UNPLUGGED" ->
         /\ ~r2.wired_hs_is_connected
         /\ (cs = "INVIDEOCALL" => r2.prefer_loudspeaker)
         /\ w = IF cur = "SPEAKER" THEN "SPEAKER"
                ELSE IF r.bt_device_is_connected THEN "BT"
                ELSE IF r.prefer_loudspeaker \/ cs = "INVIDEOCALL"
                  THEN "SPEAKER"
                ELSE "EARPIECE"
    [] ev = "MM_BT_DEVICE_CONNECTED" ->
         cs \in {"INCALL", "INVIDEOCALL"} => w = "BT"
    [] ev = "MM_BT_DEVICE_DISCONNECTED" ->
         w = IF r.wired_hs_is_connected THEN "HEADSET"
             ELSE IF r.prefer_loudspeaker THEN "SPEAKER"
             ELSE "EARPIECE"
    [] ev = "MM_SPEAKER_ENABLE_REQUEST" ->
         /\ w = "SPEAKER"
         /\ r2.prefer_loudspeaker
    [] ev = "MM_SPEAKER_DISABLE_REQUEST" ->
         /\ ~r2.prefer_loudspeaker
         /\ w = IF r.wired_hs_is_connected THEN "HEADSET"
                ELSE IF r.bt_device_is_connected THEN "BT"
                ELSE "EARPIECE"
    [] ev = "MM_CALL_START" ->
         /\ r2.route_before_call = cur
         /\ w = IF r.wired_hs_is_connected THEN "HEADSET"
                ELSE IF r.bt_device_is_connected THEN "BT"
                ELSE IF r.prefer_loudspeaker THEN "SPEAKER"
                ELSE "EARPIECE"
    [] ev = "MM_CALL_STOP" ->
         /\ w = "EARPIECE"
         /\ ~r2.prefer_loudspeaker
    [] OTHER -> TRUE

\* C1: whenever update_route runs, for each of the eight events of the
\* transition table, the wanted route it computes and the router flags it
\* leaves are those of the table's row, read on the router flags, the call
\* state and the platform route the event found.
C1_TransitionTable ==
  [][(HandlerStep /\ upd'.called) =>
       TableRow(upd'.event, router, call_state', plat_route,
                upd'.wanted_route, router')]_vars

\* C1 witness: a headset unplugged during a video call, with no BT device
\* and the platform not on speaker, made speaker the wanted route.
C1_Witness ==
  /\ upd.called
  /\ upd.event = "MM_HEADSET_UNPLUGGED"
  /\ call_state = "INVIDEOCALL"
  /\ upd.cur_route = "HEADSET"
  /\ ~router.bt_device_is_connected
  /\ upd.wanted_route = "SPEAKER"

\* C2 (as claimed): after a routing event that leaves wired_hs_is_connected
\* true, prefer_loudspeaker false and no call active, the wanted route that
\* event computed is headset.
C2_HeadsetWanted_Claimed ==
  (upd.called /\ router.wired_hs_is_connected /\ ~router.prefer_loudspeaker
     /\ ~InCall(call_state))
    => upd.wanted_route = "HEADSET"

\* C2 (amended): the same, for every event but MM_CALL_STOP, after which the
\* wanted route is earpiece, and MM_BT_DEVICE_CONNECTED, after which
\* (outside a call) it is the route the platform was on.
C2_HeadsetWanted ==
  (upd.called /\ router.wired_hs_is_connected /\ ~router.prefer_loudspeaker
     /\ ~InCall(call_state))
    => CASE upd.event = "MM_CALL_STOP" -> upd.wanted_route = "EARPIECE"
         [] upd.event = "MM_BT_DEVICE_CONNECTED" ->
              upd.wanted_route = upd.cur_route
         [] OTHER -> upd.wanted_route = "HEADSET"

\* C2 witness: with a headset connected and no call, disabling the speaker
\* while the platform was on speaker wanted the headset.
C2_Witness ==
  /\ upd.called
  /\ upd.event = "MM_SPEAKER_DISABLE_REQUEST"
  /\ upd.cur_route = "SPEAKER"
  /\ router.wired_hs_is_connected
  /\ router.bt_device_is_connected
  /\ ~InCall(call_state)
  /\ upd.wanted_route = "HEADSET"

\* C4 (as claimed): after update_route, if the platform's observed route
\* differs from the wanted one and no call is active the effective route is
\* the wanted one; in a call it is the observed one; the platform was asked
\* at most once and the handler was called once, with the effective route.
C4_EffectiveRoute_Claimed ==
  upd.called =>
    /\ (upd.observed # upd.wanted_route /\ ~InCall(upd.call_state))
         => upd.effective = upd.wanted_route
    /\ InCall(upd.call_state) => upd.effective = upd.observed
    /\ Len(upd.enable_calls) <= 1
    /\ rc_calls = <<upd.effective>>

\* C4 (amended): the effective route is the wanted one only if, besides,
\* the platform call reported no error (ret >= 0); when it reported an
\* error the effective route is the observed one.
C4_EffectiveRoute ==
  upd.called =>
    /\ (upd.observed # upd.wanted_route /\ ~InCall(upd.call_state)
          /\ upd.ret >= 0)
         => upd.effective = upd.wanted_route
    /\ (InCall(upd.call_state) \/ upd.ret < 0)
         => upd.effective = upd.observed
    /\ Len(upd.enable_calls) <= 1
    /\ rc_calls = <<upd.effective>>

\* C4 witness: outside a call the platform was asked for a route, reported
\* success and stayed where it was, and the wanted route was reported.
C4_Witness ==
  /\ upd.called
  /\ upd.enable_calls = <<upd.wanted_route>>
  /\ upd.ret >= 0
  /\ upd.observed # upd.wanted_route
  /\ ~InCall(upd.call_state)
  /\ rc_calls = <<upd.wanted_route>>

\* C8: handling STOP_MEDIA for a registered sound that is not playing is a
\* no-op: the playing sounds, the router flags, the platform route, the
\* platform call mode and the call state stay as they were, and neither the
\* route-changed nor the call-state handler is invoked.
C8_StopStoppedNoOp ==
  [][(HandlerStep /\ last'.id = "STOP_MEDIA" /\ DictLookup(sounds, last'.name)
        /\ ~PlatformIsSoundPlaying(playing, last'.name))
       => /\ playing' = playing
          /\ router' = router
          /\ plat_route' = plat_route
          /\ plat_incall' = plat_incall
          /\ call_state' = call_state
          /\ rc_calls' = <<>>
          /\ mcat_calls' = <<>>]_vars

(***************************************************************************)
(* SpecQueue: two caller threads post while the audio thread handles.  The *)
(* first caller posts the routing messages of the router scenario, the     *)
(* second the sound messages of one sound that is not call media.  The     *)
(* platform always switches to the route it is asked for and starts on     *)
(* earpiece; the route-changed handler is registered.  A post can fail.    *)
(***************************************************************************)

\* the sound the second caller registers
QueueSound == SoundRec(TRUE, FALSE, 60, 0, FALSE)

\* what each caller posts, in this order
Script(c) ==
  IF c = "c1"
    THEN <<MsgHeadsetConnected(TRUE), MsgCallState("INCALL"),
           MsgHeadsetConnected(FALSE), MsgEnableSpeaker(TRUE),
           MsgCallState("NORMAL"), MsgBtDeviceConnected(FALSE)>>
    ELSE <<MsgRegisterMedia("notif", QueueSound), MsgSetIntensity("SOME"),
           MsgPlay("notif"), MsgPause("notif"), MsgStop("notif"),
           MsgDeregisterMedia("notif")>>

InitQueue == InitWith(EmptyDict, "EARPIECE", TRUE, TRUE)

\* the number of messages the queue holds before a caller has to wait
MaxQueue == 3

\* caller c makes its next call
Post(c) ==
  /\ posted[c] < Len(Script(c))
  /\ Len(mq) < MaxQueue
  /\ PostMessage(c, Script(c)[posted[c] + 1])

\* caller c makes its next call and the call fails
PostLost(c) ==
  /\ posted[c] < Len(Script(c))
  /\ PostFails(c)

NextQueue ==
  \/ \E c \in Callers : Post(c)
  \/ \E c \in Callers : PostLost(c)
  \/ HandleNext

SpecQueue == InitQueue /\ [][NextQueue]_vars

(***************************************************************************)
(* Claims about the router scenario and the queue                          *)
(***************************************************************************)

\* the routes the scenario reports, one per message of the first caller
C3_Routes == <<"HEADSET", "HEADSET", "EARPIECE", "SPEAKER", "EARPIECE">>

\* C3: from earpiece, no headset, no BT, call state normal and a platform
\* that always switches, handling HEADSET_CONNECTED(true), CALL_STATE(INCALL),
\* HEADSET_CONNECTED(false), ENABLE_SPEAKER(true), CALL_STATE(NORMAL) in this
\* order reports headset, headset, earpiece, speaker, earpiece to the
\* route-changed handler: the k-th of them reports the k-th route, once, and
\* the sound messages handled in between report nothing.
C3_RouterSequence ==
  /\ \A k \in 1..Len(C3_Routes) :
       (last.from = "c1" /\ last.seq = k /\ ~lost["c1"])
         => rc_calls = <<C3_Routes[k]>>
  /\ (last.from = "c2" /\ last.seq > 0) => rc_calls = <<>>

\* C3 witness: the fifth message of the scenario has just been handled, after
\* messages of the other caller, and earpiece was reported.
C3_Witness ==
  /\ last.from = "c1"
  /\ last.seq = 5
  /\ last.id = "CALL_STATE"
  /\ ~lost["c1"]
  /\ handled["c2"] > 0
  /\ rc_calls = <<"EARPIECE">>

\* C10: the audio thread handles the messages of one caller in the order
\* the caller posted them and none twice: each handled message was posted by
\* that caller later than the last message of the caller handled before, it
\* is the message the caller posted in that call, and it leaves the queue.
C10_PerCallerFifo ==
  [][HandlerStep =>
       /\ last'.seq > handled[last'.from]
       /\ last'.seq <= posted[last'.from]
       /\ last' = Tagged(Script(last'.from)[last'.seq], last'.from, last'.seq)
       /\ Len(mq') = Len(mq) - 1]_vars

\* C10 witness: every message of both callers has been posted and handled,
\* and the callers' messages were handled interleaved.
C10_Witness ==
  /\ \A c \in Callers : handled[c] = Len(Script(c)) /\ ~lost[c]
  /\ mq = <<>>
  /\ last.from = "c1"

(***************************************************************************)
(* SpecSound: the sound messages and the call states on a fixed registry   *)
(* of three sounds, each message handled as soon as it is posted.          *)
(***************************************************************************)

SoundNames == {"ringtone", "notif", "talk"}

\* the registries: a ringtone of every kind, beside a mixing sound that is
\* not allowed in a call and an exclusive one that is (both of priority 0)
SoundRegistries ==
  {[n \in SoundNames |->
      CASE n = "ringtone" -> k
        [] n = "notif" -> SoundRec(TRUE, FALSE, 0, 0, FALSE)
        [] n = "talk" -> SoundRec(FALSE, TRUE, 0, 0, FALSE)] :
     k \in AllSounds}

InitSound == \E d \in SoundRegistries : InitWith(d, "EARPIECE", TRUE, FALSE)

SoundPlay == \E n \in SoundNames : Serve(MsgPlay(n))
SoundPause == \E n \in SoundNames : Serve(MsgPause(n))
SoundStop == \E n \in SoundNames : Serve(MsgStop(n))
SoundCallState == \E st \in MediamgrStates : Serve(MsgCallState(st))
SoundSetIntensity == \E md \in SoundModes : Serve(MsgSetIntensity(md))

NextSound ==
  \/ SoundPlay
  \/ SoundPause
  \/ SoundStop
  \/ SoundCallState
  \/ SoundSetIntensity

SpecSound == InitSound /\ [][NextSound]_vars

(***************************************************************************)
(* Claims about the sound registry                                         *)
(***************************************************************************)

\* the last handled message was a PLAY of a registered sound
PlayedRegistered == last.id = "PLAY_MEDIA" /\ DictLookup(sounds, last.name)

\* the sound the last handled message names
LastSound == sounds[last.name]

\* the sound is allowed in the current call state
AllowedInCallState(snd) == snd.incall \/ ~InCall(call_state)

\* C5 (as claimed): after handling PLAY for a registered sound with
\* priority > 0, that sound is playing and no other sound is, whatever was
\* playing before.
C5_PriorityPreempts_Claimed ==
  (PlayedRegistered /\ LastSound.priority > 0) => playing = {last.name}

\* C5 (amended): the same, provided the sound's intensity is not above the
\* intensity threshold and the sound is allowed in the current call state;
\* otherwise the PLAY is rejected and the playing sounds stay as they were.
C5_PriorityPreempts ==
  (PlayedRegistered /\ LastSound.priority > 0) =>
    IF LastSound.intensity <= intensity_thres /\ AllowedInCallState(LastSound)
      THEN playing = {last.name}
      ELSE playing = was_playing

\* C5 witness: a PLAY of the priority-1 ringtone, handled while the mixing
\* sound notif was playing, left the ringtone playing alone.
C5_Witness ==
  /\ PlayedRegistered
  /\ last.name = "ringtone"
  /\ LastSound.priority > 0
  /\ "notif" \in was_playing
  /\ "ringtone" \notin was_playing
  /\ playing = {"ringtone"}

\* a PLAY that passes the tests other than the intensity test
PassesOtherTests ==
  /\ AllowedInCallState(LastSound)
  /\ \/ LastSound.priority > 0
     \/ was_playing = {}

\* C6 (as claimed): a PLAY never starts a sound whose intensity is above the
\* threshold of the last handled SET_INTENSITY (initially the ALL threshold);
\* a PLAY after set_sound_mode(NONE) starts nothing, and one after
\* set_sound_mode(ALL) is not rejected for intensity.
C6_IntensityFilter_Claimed ==
  PlayedRegistered =>
    /\ LastSound.intensity > last_thres => playing = was_playing
    /\ last_thres = MM_INTENSITY_THRES_NONE => playing \subseteq was_playing
    /\ (last_thres = MM_INTENSITY_THRES_ALL /\ PassesOtherTests)
         => last.name \in playing

\* C6 (amended): a PLAY never starts a sound whose intensity is above the
\* threshold of the last handled SET_INTENSITY; it is not rejected for
\* intensity when the intensity is at or below that threshold.  So after
\* set_sound_mode(NONE) a sound of intensity at or below the NONE threshold
\* still starts, and after set_sound_mode(ALL) a sound above the ALL
\* threshold does not.
C6_IntensityFilter ==
  PlayedRegistered =>
    /\ LastSound.intensity > last_thres => playing = was_playing
    /\ (LastSound.intensity <= last_thres /\ PassesOtherTests)
         => last.name \in playing

\* C6 witness: with the SOME threshold set, a PLAY of a call-media sound
\* of priority 1 and intensity above the threshold started nothing.
C6_Witness ==
  /\ PlayedRegistered
  /\ last_thres = MM_INTENSITY_THRES_SOME
  /\ LastSound.intensity > last_thres
  /\ LastSound.priority > 0
  /\ LastSound.is_call_media
  /\ was_playing = {"notif"}
  /\ playing = was_playing

\* C7: if a sound registered with mixing=false is playing, no other sound is
\* playing; a PLAY of a priority-0 sound is rejected while a non-mixing sound
\* is playing, and a PLAY of a priority-0 non-mixing sound is rejected while
\* any sound is playing; with nothing playing, a PLAY of a priority-0 sound
\* that passes the intensity and call-state tests starts it.
C7_ExclusiveOrMixing ==
  /\ \A n \in playing : ~sounds[n].mixing => playing = {n}
  /\ (PlayedRegistered /\ LastSound.priority = 0) =>
       /\ (\E n \in was_playing : ~sounds[n].mixing) => playing = was_playing
       /\ (~LastSound.mixing /\ was_playing # {}) => playing = was_playing
       /\ (was_playing = {} /\ LastSound.intensity <= intensity_thres
             /\ AllowedInCallState(LastSound))
            => playing = {last.name}

\* C7 witness: while the exclusive priority-1 ringtone was playing, a PLAY of
\* the mixing priority-0 sound notif was rejected and the ringtone plays
\* alone.
C7_Witness ==
  /\ PlayedRegistered
  /\ last.name = "notif"
  /\ ~sounds["ringtone"].mixing
  /\ sounds["ringtone"].priority > 0
  /\ was_playing = {"ringtone"}
  /\ playing = {"ringtone"}

\* C7, second witness state: two mixing sounds play together.
C7_MixingTogether ==
  /\ playing = {"ringtone", "notif"}
  /\ sounds["ringtone"].mixing

(***************************************************************************)
(* SpecRegistry: REGISTER_MEDIA and DEREGISTER_MEDIA messages, each        *)
(* handled as soon as it is posted, starting from the empty registry.      *)
(***************************************************************************)

\* the sounds callers register
RegistryKinds ==
  {SoundRec(TRUE, FALSE, 0, 0, FALSE), SoundRec(FALSE, TRUE, 60, 1, TRUE)}

InitRegistry == InitWith(EmptyDict, "EARPIECE", TRUE, FALSE)

RegistryRegister ==
  \E n \in SoundNames, k \in RegistryKinds : Serve(MsgRegisterMedia(n, k))
RegistryDeregister == \E n \in SoundNames : Serve(MsgDeregisterMedia(n))

NextRegistry ==
  \/ RegistryRegister
  \/ RegistryDeregister

SpecRegistry == InitRegistry /\ [][NextRegistry]_vars

\* C9 (as claimed): for every registry content and every name, after
\* REGISTER_MEDIA for the name followed by DEREGISTER_MEDIA for the same name
\* the registry has the entries it had before the two messages.
C9_RegisterDeregister_Claimed ==
  reg_snap.paired =>
    /\ DOMAIN sounds = DOMAIN reg_snap.before
    /\ sounds = reg_snap.before

\* C9 (amended): the same, for every name that was not in the registry
\* before the two messages.
C9_RegisterDeregister ==
  (reg_snap.paired /\ ~DictLookup(reg_snap.before, reg_snap.name)) =>
    /\ DOMAIN sounds = DOMAIN reg_snap.before
    /\ sounds = reg_snap.before

\* C9 witness: a name new to a registry that is not empty was registered and
\* then deregistered, and the registry is as it was.
C9_Witness ==
  /\ reg_snap.paired
  /\ last.id = "DEREGISTER_MEDIA"
  /\ ~DictLookup(reg_snap.before, reg_snap.name)
  /\ reg_snap.before # EmptyDict
  /\ sounds = reg_snap.before


(***************************************************************************)
(* SpecLife: one manager from mediamgr_alloc to the release of its memory. *)
(* The audio thread is created, initialises itself and enters re_main      *)
(* while mediamgr_alloc polls started; the callers then post and register  *)
(* a route handler; the last reference is dropped and mm_destructor runs.  *)
(* Every step of the audio thread and of the destructor is taken when it   *)
(* stays possible (the threads are scheduled and pthread_join returns      *)
(* once the thread has returned).                                          *)
(***************************************************************************)

\* the polls of started that mediamgr_alloc makes before it goes on
\* (10000 in the source, one millisecond apart)
MaxPolls == 2

\* the calls each caller makes in the life of the manager
MaxLifePosts == 2

\* the audio thread exists and has not returned
ThreadAlive == thread_pc \notin {"none", "exited"}

InitLife ==
  /\ InitFields(EmptyDict, "EARPIECE", TRUE, FALSE)
  /\ running = FALSE
  /\ intensity_thres = 0
  /\ started = FALSE
  /\ has_mq = FALSE
  /\ thread_pc = "none"
  /\ alloc_pc = "start"
  /\ cnt = 0
  /\ observed_started = FALSE
  /\ dtor_pc = "none"
  /\ freed = FALSE
  /\ InitFlow
  /\ fake_audiodevice

\* mediamgr_alloc, lines 164-178: started is cleared and the thread is
\* created; when pthread_create fails, mem_deref runs mm_destructor, which
\* finds started false and releases the manager
AllocStart ==
  /\ alloc_pc = "start"
  /\ started' = FALSE
  /\ \E ok \in BOOLEAN :
       IF ok
         THEN /\ thread_pc' = "created"
              /\ alloc_pc' = "wait"
              /\ UNCHANGED <<dtor_pc, freed>>
         ELSE /\ alloc_pc' = "failed"
              /\ dtor_pc' = "done"
              /\ freed' = TRUE
              /\ UNCHANGED thread_pc
  /\ UNCHANGED <<mq, running, mgr_vars, route_changed_h, plat_reliable,
                 posted, lost, obs_vars, side_vars, has_mq, cnt,
                 observed_started>>

\* mediamgr_alloc, lines 179-184: one round of the loop that waits for
\* started; after MaxPolls rounds the loop ends whatever started is
AllocPoll ==
  /\ alloc_pc = "wait"
  /\ IF started
       THEN /\ observed_started' = TRUE
            /\ alloc_pc' = "fields"
            /\ cnt' = cnt
       ELSE /\ observed_started' = FALSE
            /\ cnt' = cnt + 1
            /\ alloc_pc' = IF cnt + 1 = MaxPolls THEN "fields" ELSE "wait"
  /\ UNCHANGED <<mq, running, mgr_vars, route_changed_h, plat_reliable,
                 posted, lost, obs_vars, side_vars, started, has_mq, thread_pc,
                 dtor_pc, freed>>

\* mediamgr_alloc, lines 186-201: the handlers, the route handler and the
\* threshold are written and the manager is returned with err = 0
AllocFields ==
  /\ alloc_pc = "fields"
  /\ route_changed_h' = FALSE
  /\ intensity_thres' = MM_INTENSITY_THRES_ALL
  /\ alloc_pc' = "returned"
  /\ UNCHANGED <<mq, running, sounds, playing, call_state, prev_call_state,
                 router, plat_route, plat_incall, plat_reliable, posted,
                 lost, obs_vars, side_vars, started, has_mq, thread_pc, cnt,
                 observed_started, dtor_pc, freed>>

\* mediamgr_thread, one step: re_thread_init, mqueue_alloc,
\* mm_platform_init (each may fail, and the thread then returns with
\* started still false), started = true, re_main, and the return after
\* re_main came back
ThreadStep ==
  /\ ~freed
  /\ \/ /\ thread_pc = "created"
        /\ \E ok \in BOOLEAN :
             thread_pc' = IF ok THEN "re_init" ELSE "exited"
        /\ UNCHANGED <<started, has_mq, running>>
     \/ /\ thread_pc = "re_init"
        /\ \E ok \in BOOLEAN :
             /\ thread_pc' = IF ok THEN "mq" ELSE "exited"
             /\ has_mq' = ok
        /\ UNCHANGED <<started, running>>
     \/ /\ thread_pc = "mq"
        /\ \E ok \in BOOLEAN :
             thread_pc' = IF ok THEN "platform" ELSE "exited"
        /\ UNCHANGED <<started, has_mq, running>>
     \/ /\ thread_pc = "platform"
        /\ started' = TRUE
        /\ thread_pc' = "started"
        /\ UNCHANGED <<has_mq, running>>
     \/ /\ thread_pc = "started"
        /\ running' = TRUE
        /\ thread_pc' = "loop"
        /\ UNCHANGED <<started, has_mq>>
     \/ /\ thread_pc = "loop"
        /\ ~running
        /\ thread_pc' = "exited"
        /\ UNCHANGED <<started, has_mq, running>>
  /\ UNCHANGED <<mq, mgr_vars, route_changed_h, plat_reliable, posted, lost,
                 obs_vars, side_vars, alloc_pc, cnt, observed_started, dtor_pc, freed>>

\* the handle is in the callers' hands
InUse == alloc_pc = "returned" /\ dtor_pc = "none"

\* a caller's call on the manager; mqueue_push fails on a queue that was
\* never allocated
LifePost(c) ==
  /\ InUse
  /\ has_mq
  /\ posted[c] < MaxLifePosts
  /\ Post(c)

LifePostLost(c) ==
  /\ InUse
  /\ posted[c] < MaxLifePosts
  /\ PostLost(c)

LifeRegisterHandler ==
  /\ InUse
  /\ \E h \in BOOLEAN : mediamgr_register_route_change_h(h)

\* mm_destructor, lines 139-143, run by caller c dropping the last
\* reference: if started, MM_MARSHAL_EXIT is pushed (the result of
\* mqueue_push is not looked at) and the thread is joined
DtorStart(c) ==
  /\ InUse
  /\ IF started
       THEN /\ dtor_pc' = "join"
            /\ \E ok \in BOOLEAN :
                 /\ mq' = IF ok /\ has_mq
                            THEN MqPush(mq, Tagged(MsgExit, c, posted[c] + 1))
                            ELSE mq
                 /\ lost' = [lost EXCEPT ![c] = @ \/ ~(ok /\ has_mq)]
            /\ posted' = [posted EXCEPT ![c] = @ + 1]
       ELSE /\ dtor_pc' = "free_unjoined"
            /\ UNCHANGED <<mq, posted, lost>>
  /\ UNCHANGED <<running, mgr_vars, route_changed_h, plat_reliable,
                 obs_vars, side_vars, started, has_mq, thread_pc, alloc_pc, cnt,
                 observed_started, freed>>

\* mm_destructor, line 143: pthread_join returns once the thread returned
DtorJoin ==
  /\ dtor_pc = "join"
  /\ thread_pc = "exited"
  /\ dtor_pc' = "free"
  /\ UNCHANGED <<mq, running, mgr_vars, route_changed_h, plat_reliable,
                 posted, lost, obs_vars, side_vars, started, has_mq, thread_pc,
                 alloc_pc, cnt, observed_started, freed>>

\* mm_destructor, lines 146-150: the registry is flushed and released, the
\* queue and the platform are released
DtorFree ==
  /\ dtor_pc \in {"free", "free_unjoined"}
  /\ dtor_pc' = "done"
  /\ freed' = TRUE
  /\ sounds' = EmptyDict
  /\ UNCHANGED <<mq, running, playing, call_state, prev_call_state, router,
                 intensity_thres, plat_route, plat_incall, route_changed_h,
                 plat_reliable, posted, lost, obs_vars, side_vars, started, has_mq,
                 thread_pc, alloc_pc, cnt, observed_started>>

\* the audio thread inside re_main
LifeHandleNext == ~freed /\ HandleNext

NextLife ==
  \/ AllocStart
  \/ AllocPoll
  \/ AllocFields
  \/ ThreadStep
  \/ \E c \in Callers : LifePost(c)
  \/ \E c \in Callers : LifePostLost(c)
  \/ LifeRegisterHandler
  \/ \E c \in Callers : DtorStart(c)
  \/ DtorJoin
  \/ DtorFree
  \/ LifeHandleNext

SpecLife ==
  /\ InitLife
  /\ [][NextLife]_vars
  /\ WF_vars(ThreadStep)
  /\ WF_vars(LifeHandleNext)
  /\ WF_vars(DtorJoin)
  /\ WF_vars(DtorFree)

(***************************************************************************)
(* C11                                                                     *)
(***************************************************************************)

\* C11: when a started manager is destroyed, every message pushed before
\* EXIT is handled before the loop of the audio thread is left, the loop is
\* left, the registry and the queue are released only after the join
\* returned, and the destruction comes to its end.
C11_DestroyTerminates ==
  /\ [](thread_pc \in {"loop", "exited"} /\ ~running /\ last.id = "EXIT"
          => mq = <<>>)
  /\ [][dtor_pc = "free" /\ freed' => thread_pc = "exited"]_vars
  /\ (dtor_pc = "join" ~> thread_pc = "exited")
  /\ (dtor_pc = "join" ~> freed)

(***************************************************************************)
(* C12                                                                     *)
(***************************************************************************)

\* C12: no message is pushed to the queue or handled by the audio thread
\* before started is set; the audio thread sets started only after its
\* queue and the platform layer are initialised and before it enters its
\* loop; and mediamgr_alloc hands the manager to its caller only after it
\* has seen started set.
C12_StartedBeforeUse ==
  [][/\ (Len(mq') > Len(mq) => started)
     /\ (HandlerStep => started)
     /\ (started' /\ ~started
           => has_mq /\ thread_pc = "platform" /\ ~running /\ ~running')
     /\ (alloc_pc' = "returned" /\ alloc_pc # "returned"
           => started /\ observed_started)]_vars

(***************************************************************************)
(* C13                                                                     *)
(***************************************************************************)

\* C13: while the audio thread is alive and the manager is in the callers'
\* hands, the registry, the router state and the other fields the audio
\* thread reads change only in a step of the audio thread handling a
\* message; the callers' operations do nothing but push messages.
C13_OnlyAudioThreadWrites ==
  [][ThreadAlive /\ alloc_pc = "returned"
       /\ <<sounds, router, call_state, prev_call_state, intensity_thres,
            route_changed_h>>' #
          <<sounds, router, call_state, prev_call_state, intensity_thres,
            route_changed_h>>
     => HandlerStep]_vars

(***************************************************************************)
(* C16                                                                     *)
(***************************************************************************)

\* C16: in a call (INCALL or INVIDEOCALL) no sound registered as not
\* playable in a call is playing; every CALL_STATE message that brings the
\* manager into a call, the RESUME from HOLD included, stops the playing
\* sounds that are not playable in a call and no other; and a PLAY of such
\* a sound during a call is rejected whatever its priority.
C16_NoForeignSoundInCall ==
  /\ InCall(call_state) => \A n \in playing : sounds[n].incall
  /\ last.id = "CALL_STATE" /\ InCall(call_state)
       /\ (last.state \in {"INCALL", "INVIDEOCALL"}
             \/ (last.state = "RESUME" /\ upd.called))
     => playing = {n \in was_playing : sounds[n].incall}
  /\ PlayedRegistered /\ InCall(call_state) /\ ~LastSound.incall
     => playing = was_playing /\ last.name \notin playing

\* C16 witness: a call on hold is resumed while a sound that is not
\* playable in a call and one that is are playing; the first is stopped.
C16_Witness ==
  /\ last.id = "CALL_STATE"
  /\ last.state = "RESUME"
  /\ InCall(call_state)
  /\ \E n \in was_playing : ~sounds[n].incall
  /\ \E n \in playing : sounds[n].incall

(***************************************************************************)
(* C17                                                                     *)
(***************************************************************************)

\* C17: when an accepted PLAY of a call-media sound is handled outside a
\* call, the platform is put in call mode and the CALL_START routing is
\* applied before the sound is started; when a STOP of a call-media sound
\* is handled outside a call, the sound is stopped, then the platform
\* leaves call mode and the CALL_STOP routing is applied; in a call the
\* PLAY and the STOP of a call-media sound change neither the call mode of
\* the platform nor the route; and no PLAY or STOP changes call_state.
C17_CallMediaOrder ==
  [][HandlerStep /\ last'.id \in {"PLAY_MEDIA", "STOP_MEDIA"}
     => /\ call_state' = call_state
        /\ DictLookup(sounds, last'.name) /\ sounds[last'.name].is_call_media
           => IF InCall(call_state)
                THEN /\ plat_incall' = plat_incall
                     /\ plat_route' = plat_route
                     /\ router' = router
                     /\ ~upd'.called
                     /\ \A k \in DOMAIN plat_calls' :
                          plat_calls'[k] \in {"play_sound", "stop_sound"}
              ELSE IF last'.id = "STOP_MEDIA"
                THEN /\ plat_calls' =
                          <<"stop_sound", "exit_call", "update_route">>
                     /\ last'.name \notin playing'
                     /\ ~plat_incall'
                     /\ upd'.called /\ upd'.event = "MM_CALL_STOP"
              ELSE IF mediamgr_can_play_sound(sounds, playing,
                        intensity_thres, call_state, sounds[last'.name])
                THEN /\ plat_calls' =
                          <<"enter_call", "update_route", "play_sound">>
                     /\ last'.name \in playing'
                     /\ plat_incall'
                     /\ upd'.called /\ upd'.event = "MM_CALL_START"
              ELSE plat_calls' = <<>> /\ ~upd'.called]_vars

\* C17 witness: a call-media sound was played outside a call, with a call
\* on hold; call mode was entered and CALL_START applied before the sound
\* was started.
C17_Witness ==
  /\ PlayedRegistered
  /\ LastSound.is_call_media
  /\ call_state = "HOLD"
  /\ plat_calls = <<"enter_call", "update_route", "play_sound">>
  /\ upd.event = "MM_CALL_START"
  /\ plat_incall
  /\ last.name \in playing

(***************************************************************************)
(* C18                                                                     *)
(***************************************************************************)

\* C18: when CALL_STATE INVIDEOCALL is handled, the route in force is saved
\* as the route before the call, the wanted route is the headset if a wired
\* headset is connected, else Bluetooth if a Bluetooth device is connected,
\* else the speaker whatever prefer_loudspeaker was, and prefer_loudspeaker
\* is false afterwards.
C18_VideoCallStart ==
  [][HandlerStep /\ last'.id = "CALL_STATE" /\ last'.state = "INVIDEOCALL"
     => /\ upd'.called
        /\ upd'.event = "MM_VIDEO_CALL_START"
        /\ router'.route_before_call = plat_route
        /\ upd'.wanted_route =
             IF router.wired_hs_is_connected THEN "HEADSET"
             ELSE IF router.bt_device_is_connected THEN "BT"
             ELSE "SPEAKER"
        /\ ~router'.prefer_loudspeaker]_vars

\* C18 witness: a video call was started from the earpiece with neither a
\* headset nor a Bluetooth device connected; the speaker is wanted.
C18_Witness ==
  /\ last.id = "CALL_STATE"
  /\ last.state = "INVIDEOCALL"
  /\ upd.event = "MM_VIDEO_CALL_START"
  /\ ~router.wired_hs_is_connected
  /\ ~router.bt_device_is_connected
  /\ router.route_before_call = "EARPIECE"
  /\ upd.wanted_route = "SPEAKER"
  /\ ~router.prefer_loudspeaker

(***************************************************************************)
(* SpecFlow: one media flow.  The functions of the media flow are declared *)
(* in the header only; what they do is taken from the specification: the   *)
(* SDP negotiation states and their valid transitions, SDP-complete, the   *)
(* rule for start-media, and the error kinds InvalidArgument and NotReady. *)
(***************************************************************************)

SdpStates == {"INIT", "LOCAL_OFFER", "REMOTE_ANSWER", "REMOTE_OFFER",
              "LOCAL_ANSWER", "COMPLETE"}

\* the SDP texts handed to the flow: one that parses and one that does not
SdpTexts == {"good", "bad"}

\* the state an SDP operation is valid in
SdpFits(op) ==
  CASE op = "generate_offer" -> "INIT"
    [] op = "handle_offer" -> "INIT"
    [] op = "handle_answer" -> "LOCAL_OFFER"
    [] op = "generate_answer" -> "REMOTE_OFFER"

\* the state a valid SDP operation leads to
SdpAfter(op) ==
  CASE op = "generate_offer" -> "LOCAL_OFFER"
    [] op = "handle_offer" -> "REMOTE_OFFER"
    [] op = "handle_answer" -> "REMOTE_ANSWER"
    [] op = "generate_answer" -> "LOCAL_ANSWER"

\* an operation on the flow that touches neither the engines nor started
FlowCall(op, err) ==
  /\ mf_op' = op
  /\ mf_err' = err
  /\ mf_tick' = ~mf_tick
  /\ UNCHANGED <<mm_vars, dev_vars>>

\* an SDP operation without the test of the state it is valid in
SdpCall_AnyState(op, sdp) ==
  /\ IF sdp = "good"
       THEN sdp_state' = SdpAfter(op) /\ FlowCall(op, "OK")
       ELSE sdp_state' = sdp_state /\ FlowCall(op, "EINVAL")
  /\ UNCHANGED <<ice_ready, dtls_ready, mf_started>>

\* an SDP operation: it fails with InvalidArgument, changing nothing, in a
\* state it is not valid in or on a text that does not parse
SdpCall(op, sdp) ==
  /\ IF sdp_state = SdpFits(op) /\ sdp = "good"
       THEN sdp_state' = SdpAfter(op) /\ FlowCall(op, "OK")
       ELSE sdp_state' = sdp_state /\ FlowCall(op, "EINVAL")
  /\ UNCHANGED <<ice_ready, dtls_ready, mf_started>>

mediaflow_generate_offer == SdpCall("generate_offer", "good")
mediaflow_generate_answer == SdpCall("generate_answer", "good")
mediaflow_handle_offer == \E sdp \in SdpTexts : SdpCall("handle_offer", sdp)
mediaflow_handle_answer == \E sdp \in SdpTexts : SdpCall("handle_answer", sdp)

\* both offer and answer have been processed and the required attributes
\* are present: the negotiation is complete
SdpCompletes ==
  /\ sdp_state \in {"REMOTE_ANSWER", "LOCAL_ANSWER"}
  /\ sdp_state' = "COMPLETE"
  /\ UNCHANGED <<ice_ready, dtls_ready, mf_started, mf_op, mf_err, mf_tick>>
  /\ UNCHANGED <<mm_vars, dev_vars>>

mediaflow_sdpstate_reset ==
  /\ sdp_state' = "INIT"
  /\ FlowCall("sdpstate_reset", "OK")
  /\ UNCHANGED <<ice_ready, dtls_ready, mf_started>>

mediaflow_sdp_is_complete == sdp_state = "COMPLETE"

\* the ICE engine nominates a pair
IceNominates ==
  /\ ~ice_ready
  /\ ice_ready' = TRUE
  /\ UNCHANGED <<sdp_state, dtls_ready, mf_started, mf_op, mf_err, mf_tick>>
  /\ UNCHANGED <<mm_vars, dev_vars>>

\* the DTLS handshake succeeds over the nominated pair
DtlsEstablishes ==
  /\ ice_ready
  /\ ~dtls_ready
  /\ dtls_ready' = TRUE
  /\ UNCHANGED <<sdp_state, ice_ready, mf_started, mf_op, mf_err, mf_tick>>
  /\ UNCHANGED <<mm_vars, dev_vars>>

\* start-media that does not wait for DTLS
mediaflow_start_media_NoDtls ==
  /\ IF mediaflow_sdp_is_complete /\ ice_ready
       THEN mf_started' = TRUE /\ FlowCall("start_media", "OK")
       ELSE mf_started' = mf_started /\ FlowCall("start_media", "ENOTREADY")
  /\ UNCHANGED <<sdp_state, ice_ready, dtls_ready>>

\* start-media is permitted only when SDP is complete, ICE is ready and
\* DTLS is ready; otherwise it returns a not-ready error
mediaflow_start_media ==
  /\ IF mediaflow_sdp_is_complete /\ ice_ready /\ dtls_ready
       THEN mf_started' = TRUE /\ FlowCall("start_media", "OK")
       ELSE mf_started' = mf_started /\ FlowCall("start_media", "ENOTREADY")
  /\ UNCHANGED <<sdp_state, ice_ready, dtls_ready>>

mediaflow_stop_media ==
  /\ mf_started' = FALSE
  /\ FlowCall("stop_media", "OK")
  /\ UNCHANGED <<sdp_state, ice_ready, dtls_ready>>

NextFlow ==
  \/ mediaflow_generate_offer
  \/ mediaflow_generate_answer
  \/ mediaflow_handle_offer
  \/ mediaflow_handle_answer
  \/ SdpCompletes
  \/ mediaflow_sdpstate_reset
  \/ IceNominates
  \/ DtlsEstablishes
  \/ mediaflow_start_media
  \/ mediaflow_stop_media

InitFlowOnly == InitWith(EmptyDict, "EARPIECE", TRUE, FALSE)

SpecFlow == InitFlowOnly /\ [][NextFlow]_vars

(***************************************************************************)
(* C14                                                                     *)
(***************************************************************************)

\* C14: mediaflow_start_media succeeds only when SDP is complete, ICE is
\* ready and DTLS is ready; in every other state it returns the not-ready
\* error and leaves the started flag as it was, so that the flag is never
\* set before DTLS is ready over a pair nominated by ICE.
C14_StartMediaWhenReady ==
  [][/\ mf_tick' # mf_tick /\ mf_op' = "start_media"
        => IF mediaflow_sdp_is_complete /\ ice_ready /\ dtls_ready
             THEN mf_err' = "OK" /\ mf_started'
             ELSE mf_err' = "ENOTREADY" /\ mf_started' = mf_started
     /\ mf_started' /\ ~mf_started
        => mediaflow_sdp_is_complete /\ ice_ready /\ dtls_ready]_vars

\* C14 witness: start-media was refused with ICE ready and the SDP complete
\* but DTLS not yet ready; the flow is not started.
C14_Witness ==
  /\ mf_op = "start_media"
  /\ mf_err = "ENOTREADY"
  /\ mediaflow_sdp_is_complete
  /\ ice_ready
  /\ ~dtls_ready
  /\ ~mf_started

(***************************************************************************)
(* C15                                                                     *)
(***************************************************************************)

\* C15: the SDP state moves only along INIT, LOCAL_OFFER, REMOTE_ANSWER,
\* COMPLETE or INIT, REMOTE_OFFER, LOCAL_ANSWER, COMPLETE; an SDP operation
\* called in a state it does not fit fails and leaves the state unchanged;
\* and sdpstate_reset returns the state to INIT from any state.
C15_SdpTransitions ==
  [][/\ sdp_state' # sdp_state
        => \/ <<sdp_state, sdp_state'>> \in
                {<<"INIT", "LOCAL_OFFER">>, <<"LOCAL_OFFER", "REMOTE_ANSWER">>,
                 <<"REMOTE_ANSWER", "COMPLETE">>, <<"INIT", "REMOTE_OFFER">>,
                 <<"REMOTE_OFFER", "LOCAL_ANSWER">>,
                 <<"LOCAL_ANSWER", "COMPLETE">>}
           \/ mf_op' = "sdpstate_reset" /\ sdp_state' = "INIT"
     /\ mf_tick' # mf_tick
          /\ mf_op' \in {"generate_offer", "generate_answer", "handle_offer",
                         "handle_answer"}
          /\ sdp_state # SdpFits(mf_op')
        => mf_err' # "OK" /\ sdp_state' = sdp_state
     /\ mf_tick' # mf_tick /\ mf_op' = "sdpstate_reset"
        => sdp_state' = "INIT"]_vars

\* C15 witness: an answer was handed to a flow that had neither made nor
\* received an offer; the call failed and the state is still INIT.
C15_Witness ==
  /\ mf_op = "handle_answer"
  /\ mf_err = "EINVAL"
  /\ sdp_state = "INIT"

(***************************************************************************)
(* SpecDevice: the fake audio device.  One thread calls the functions of   *)
(* the device, one after the other; each function is a list of steps, and  *)
(* the playout and the record thread run between any two of them.          *)
(***************************************************************************)

\* the transports handed to RegisterAudioCallback (0: NULL)
Transports == {0, 1, 2}

\* StartPlayout, lines 89-92: the thread is created, then the flag is set
StartPlayoutSteps == <<"create_play", "set_play">>

\* StartRecording, lines 101-104
StartRecordingSteps == <<"create_rec", "set_rec">>

\* RegisterAudioCallback, lines 60-66
RegisterSteps ==
  <<"stop_play", "stop_rec", "replace", "restart_play", "restart_rec">>

\* StopPlayout setting the flag and returning without pthread_join
StopPlayoutJoin_Detached == <<>>

\* StopPlayout, lines 127-128: pthread_join, then play_tid_ = 0
StopPlayoutJoin == <<"join_play">>

\* the function op is called and its steps are st
Call(op, st) ==
  /\ ctl = <<>>
  /\ ctl' = st
  /\ ctl_op' = op

\* a call of a function other than RegisterAudioCallback
CallPlain(op, st) ==
  /\ Call(op, st)
  /\ UNCHANGED <<audioCallback_, is_playing_, is_recording_,
                 play_is_initialized_, rec_is_initialized_, play_tid_,
                 rec_tid_, play_pc, rec_pc, play_cb, rec_cb, reg_is_playing,
                 reg_is_recording, reg_cb>>
  /\ UNCHANGED <<mm_vars, mf_vars>>

InitPlayout == CallPlain("InitPlayout", <<"init_play">>)
InitRecording == CallPlain("InitRecording", <<"init_rec">>)
StartPlayout == CallPlain("StartPlayout", StartPlayoutSteps)
StartRecording == CallPlain("StartRecording", StartRecordingSteps)
StopPlayout == CallPlain("StopPlayout", <<"stop_play">>)
StopRecording == CallPlain("StopRecording", <<"stop_rec">>)
Terminate == CallPlain("Terminate", <<"stop_rec", "stop_play">>)

\* RegisterAudioCallback, lines 58-59: the flags are saved
RegisterAudioCallback(audioCallback) ==
  /\ Call("RegisterAudioCallback", RegisterSteps)
  /\ reg_is_playing' = is_playing_
  /\ reg_is_recording' = is_recording_
  /\ reg_cb' = audioCallback
  /\ UNCHANGED <<audioCallback_, is_playing_, is_recording_,
                 play_is_initialized_, rec_is_initialized_, play_tid_,
                 rec_tid_, play_pc, rec_pc, play_cb, rec_cb>>
  /\ UNCHANGED <<mm_vars, mf_vars>>

\* the next step of the function in progress, playout side
PlayStep(st) ==
  /\ UNCHANGED <<is_recording_, rec_is_initialized_, rec_tid_, rec_pc,
                 rec_cb, audioCallback_>>
  /\ CASE st = "init_play" ->
            /\ play_is_initialized_' = TRUE
            /\ ctl' = Tail(ctl)
            /\ UNCHANGED <<is_playing_, play_tid_, play_pc, play_cb>>
       [] st = "create_play" ->
            /\ IF ~is_playing_
                 THEN play_tid_' = 1 /\ play_pc' = "check" /\ play_cb' = 0
                 ELSE UNCHANGED <<play_tid_, play_pc, play_cb>>
            /\ ctl' = Tail(ctl)
            /\ UNCHANGED <<is_playing_, play_is_initialized_>>
       [] st = "set_play" ->
            /\ is_playing_' = TRUE
            /\ ctl' = Tail(ctl)
            /\ UNCHANGED <<play_is_initialized_, play_tid_, play_pc, play_cb>>
       [] st = "stop_play" ->
            IF play_tid_ # 0 /\ is_playing_
              THEN /\ is_playing_' = FALSE
                   /\ ctl' = StopPlayoutJoin \o Tail(ctl)
                   /\ UNCHANGED <<play_is_initialized_, play_tid_, play_pc,
                                  play_cb>>
              ELSE /\ play_is_initialized_' = FALSE
                   /\ ctl' = Tail(ctl)
                   /\ UNCHANGED <<is_playing_, play_tid_, play_pc, play_cb>>
       [] st = "join_play" ->
            /\ play_pc = "exited"
            /\ play_pc' = "none"
            /\ play_tid_' = 0
            /\ play_is_initialized_' = FALSE
            /\ ctl' = Tail(ctl)
            /\ UNCHANGED <<is_playing_, play_cb>>
       [] st = "restart_play" ->
            /\ ctl' = (IF reg_is_playing THEN StartPlayoutSteps ELSE <<>>)
                        \o Tail(ctl)
            /\ UNCHANGED <<is_playing_, play_is_initialized_, play_tid_,
                           play_pc, play_cb>>

\* the next step of the function in progress, record side
RecStep(st) ==
  /\ UNCHANGED <<is_playing_, play_is_initialized_, play_tid_, play_pc,
                 play_cb, audioCallback_>>
  /\ CASE st = "init_rec" ->
            /\ rec_is_initialized_' = TRUE
            /\ ctl' = Tail(ctl)
            /\ UNCHANGED <<is_recording_, rec_tid_, rec_pc, rec_cb>>
       [] st = "create_rec" ->
            /\ IF ~is_recording_
                 THEN rec_tid_' = 1 /\ rec_pc' = "check" /\ rec_cb' = 0
                 ELSE UNCHANGED <<rec_tid_, rec_pc, rec_cb>>
            /\ ctl' = Tail(ctl)
            /\ UNCHANGED <<is_recording_, rec_is_initialized_>>
       [] st = "set_rec" ->
            /\ is_recording_' = TRUE
            /\ ctl' = Tail(ctl)
            /\ UNCHANGED <<rec_is_initialized_, rec_tid_, rec_pc, rec_cb>>
       [] st = "stop_rec" ->
            IF rec_tid_ # 0 /\ is_recording_
              THEN /\ is_recording_' = FALSE
                   /\ ctl' = <<"join_rec">> \o Tail(ctl)
                   /\ UNCHANGED <<rec_is_initialized_, rec_tid_, rec_pc,
                                  rec_cb>>
              ELSE /\ rec_is_initialized_' = FALSE
                   /\ ctl' = Tail(ctl)
                   /\ UNCHANGED <<is_recording_, rec_tid_, rec_pc, rec_cb>>
       [] st = "join_rec" ->
            /\ rec_pc = "exited"
            /\ rec_pc' = "none"
            /\ rec_tid_' = 0
            /\ rec_is_initialized_' = FALSE
            /\ ctl' = Tail(ctl)
            /\ UNCHANGED <<is_recording_, rec_cb>>
       [] st = "restart_rec" ->
            /\ ctl' = (IF reg_is_recording THEN StartRecordingSteps ELSE <<>>)
                        \o Tail(ctl)
            /\ UNCHANGED <<is_recording_, rec_is_initialized_, rec_tid_,
                           rec_pc, rec_cb>>

\* the calling thread takes the next step of the function in progress
CtlStep ==
  /\ ctl # <<>>
  /\ CASE Head(ctl) \in {"init_play", "create_play", "set_play", "stop_play",
                         "join_play", "restart_play"} -> PlayStep(Head(ctl))
       [] Head(ctl) \in {"init_rec", "create_rec", "set_rec", "stop_rec",
                         "join_rec", "restart_rec"} -> RecStep(Head(ctl))
       [] Head(ctl) = "replace" ->
            /\ audioCallback_' = reg_cb
            /\ ctl' = Tail(ctl)
            /\ UNCHANGED <<is_playing_, is_recording_, play_is_initialized_,
                           rec_is_initialized_, play_tid_, rec_tid_, play_pc,
                           rec_pc, play_cb, rec_cb>>
  /\ UNCHANGED <<ctl_op, reg_is_playing, reg_is_recording, reg_cb>>
  /\ UNCHANGED <<mm_vars, mf_vars>>

\* playout_thread, lines 195-221: the test of is_playing_, and the call of
\* the transport if there is one
playout_thread ==
  /\ \/ /\ play_pc = "check"
        /\ play_pc' = IF is_playing_ THEN "call" ELSE "exited"
        /\ UNCHANGED play_cb
     \/ /\ play_pc = "call"
        /\ play_cb' = IF audioCallback_ # 0 THEN audioCallback_ ELSE play_cb
        /\ play_pc' = "check"
  /\ UNCHANGED <<audioCallback_, is_playing_, is_recording_,
                 play_is_initialized_, rec_is_initialized_, play_tid_,
                 rec_tid_, rec_pc, rec_cb, ctl, ctl_op, reg_is_playing,
                 reg_is_recording, reg_cb>>
  /\ UNCHANGED <<mm_vars, mf_vars>>

\* record_thread, lines 154-180
record_thread ==
  /\ \/ /\ rec_pc = "check"
        /\ rec_pc' = IF is_recording_ THEN "call" ELSE "exited"
        /\ UNCHANGED rec_cb
     \/ /\ rec_pc = "call"
        /\ rec_cb' = IF audioCallback_ # 0 THEN audioCallback_ ELSE rec_cb
        /\ rec_pc' = "check"
  /\ UNCHANGED <<audioCallback_, is_playing_, is_recording_,
                 play_is_initialized_, rec_is_initialized_, play_tid_,
                 rec_tid_, play_pc, play_cb, ctl, ctl_op, reg_is_playing,
                 reg_is_recording, reg_cb>>
  /\ UNCHANGED <<mm_vars, mf_vars>>

NextDevice ==
  \/ InitPlayout
  \/ InitRecording
  \/ StartPlayout
  \/ StartRecording
  \/ StopPlayout
  \/ StopRecording
  \/ Terminate
  \/ \E cb \in Transports : RegisterAudioCallback(cb)
  \/ CtlStep
  \/ playout_thread
  \/ record_thread

InitDevice == InitWith(EmptyDict, "EARPIECE", TRUE, FALSE)

SpecDevice == InitDevice /\ [][NextDevice]_vars

(***************************************************************************)
(* C19                                                                     *)
(***************************************************************************)

\* C19: once StartPlayout (StartRecording) has returned with a transport
\* registered, the playout (record) thread is running, and it does not
\* exit while Playing() (Recording()) reports true: whenever no function
\* of the device is in progress and the flag is set, the thread is in its
\* loop.
C19_TaskRunsWhilePlaying ==
  ctl = <<>> /\ audioCallback_ # 0
  => /\ is_playing_ => play_pc \in {"check", "call"}
     /\ is_recording_ => rec_pc \in {"check", "call"}

(***************************************************************************)
(* C20                                                                     *)
(***************************************************************************)

\* C20: RegisterAudioCallback replaces the transport only while neither
\* thread exists, so that a thread only ever calls the transport that is
\* registered; and when it has returned, Playing() and Recording() are what
\* they were on entry and the threads that were running then are running
\* again, on the new transport.
C20_ReplaceWhileStopped ==
  /\ [][audioCallback_' # audioCallback_
          => play_pc = "none" /\ rec_pc = "none"]_vars
  /\ [](/\ play_pc \in {"check", "call"} => play_cb \in {0, audioCallback_}
        /\ rec_pc \in {"check", "call"} => rec_cb \in {0, audioCallback_})
  /\ [](ctl_op = "RegisterAudioCallback" /\ ctl = <<>>
          => /\ audioCallback_ = reg_cb
             /\ is_playing_ = reg_is_playing
             /\ is_recording_ = reg_is_recording
             /\ reg_is_playing => play_pc \in {"check", "call"}
             /\ reg_is_recording => rec_pc \in {"check", "call"})

(***************************************************************************)
(* C26                                                                     *)
(***************************************************************************)

\* C26: in every reachable state call_state is NORMAL, INCALL, INVIDEOCALL
\* or HOLD, never RESUME, and while call_state is HOLD prev_call_state is
\* INCALL or INVIDEOCALL.
C26_CallStateRange ==
  /\ call_state \in {"NORMAL", "INCALL", "INVIDEOCALL", "HOLD"}
  /\ call_state = "HOLD" => prev_call_state \in {"INCALL", "INVIDEOCALL"}

\* C26 witness: a RESUME was accepted and brought back the video call that
\* had been put on hold.
C26_Witness ==
  /\ last.id = "CALL_STATE"
  /\ last.state = "RESUME"
  /\ upd.called
  /\ upd.event = "MM_CALL_START"
  /\ call_state = "INVIDEOCALL"
  /\ prev_call_state = "INVIDEOCALL"

(***************************************************************************)
(* C22                                                                     *)
(***************************************************************************)

\* C22: when a RESUME is handled and the last INCALL, INVIDEOCALL, NORMAL,
\* RESUME or accepted HOLD message before it was a HOLD handled in call
\* state S (INCALL or INVIDEOCALL), call_state is S after the RESUME.
C22_HoldResumeRoundTrip ==
  [][HandlerStep /\ last'.id = "CALL_STATE" /\ last'.state = "RESUME"
       /\ hold_from # "NONE"
     => call_state' = hold_from]_vars

\* C22 witness: a video call was put on hold, a sound was played while it
\* was on hold, and the RESUME just handled brought the video call back.
C22_Witness ==
  /\ last.id = "CALL_STATE"
  /\ last.state = "RESUME"
  /\ upd.called
  /\ upd.event = "MM_CALL_START"
  /\ call_state = "INVIDEOCALL"
  /\ was_playing # {}


(***************************************************************************)
(* C23                                                                     *)
(***************************************************************************)

\* C23: a HOLD handled while call_state is neither INCALL nor INVIDEOCALL
\* and a RESUME handled while call_state is not HOLD change nothing:
\* call_state, prev_call_state, the router flags, the playing sounds, the
\* route and the call mode of the platform stay, update_route is not
\* called, no route is asked of the platform and neither handler is called.
C23_IgnoredHoldResume ==
  [][HandlerStep /\ last'.id = "CALL_STATE"
       /\ \/ last'.state = "HOLD"
               /\ call_state \notin {"INCALL", "INVIDEOCALL"}
          \/ last'.state = "RESUME" /\ call_state # "HOLD"
     => /\ UNCHANGED <<call_state, prev_call_state, router, playing,
                       plat_route, plat_incall, sounds>>
        /\ ~upd'.called
        /\ upd'.enable_calls = <<>>
        /\ plat_calls' = <<>>
        /\ rc_calls' = <<>>
        /\ mcat_calls' = <<>>]_vars

\* C23 witness: a RESUME was handled with no call on hold, while the
\* ringtone was playing outside a call on a route other than the earpiece;
\* the ringtone still plays.
C23_Witness ==
  /\ last.id = "CALL_STATE"
  /\ last.state = "RESUME"
  /\ call_state = "NORMAL"
  /\ "ringtone" \in was_playing
  /\ "ringtone" \in playing
  /\ plat_incall
  /\ plat_route # "EARPIECE"
  /\ ~upd.called
  /\ mcat_calls = <<>>

(***************************************************************************)
(* C24                                                                     *)
(***************************************************************************)

\* C24: for every handled CALL_STATE message asking for INCALL or NORMAL,
\* every HOLD handled in INCALL or INVIDEOCALL and every RESUME handled in
\* HOLD, mcat_changed_h is called once, with the state of the message and
\* after update_route; for a message asking for INVIDEOCALL it is not
\* called, although call_state becomes INVIDEOCALL and update_route runs.
C24_McatChangedCalls ==
  [][HandlerStep /\ last'.id = "CALL_STATE"
     => LET st == last'.state
            n == Len(plat_calls')
            fires == \/ st \in {"INCALL", "NORMAL"}
                     \/ st = "HOLD" /\ call_state \in {"INCALL", "INVIDEOCALL"}
                     \/ st = "RESUME" /\ call_state = "HOLD"
            handler_calls == {k \in 1..n : plat_calls'[k] = "mcat_changed_h"}
        IN  /\ fires => /\ mcat_calls' = <<st>>
                        /\ upd'.called
                        /\ n >= 2
                        /\ plat_calls'[n - 1] = "update_route"
                        /\ handler_calls = {n}
            /\ st = "INVIDEOCALL" => /\ mcat_calls' = <<>>
                                     /\ handler_calls = {}
                                     /\ call_state' = "INVIDEOCALL"
                                     /\ upd'.called
                                     /\ upd'.event = "MM_VIDEO_CALL_START"
                                     /\ "update_route" \in
                                          {plat_calls'[k] : k \in 1..n}]_vars

\* C24 witness: a RESUME handled with a call on hold called the handler
\* with RESUME, after the routing update, and call_state is INCALL.
C24_Witness ==
  /\ last.id = "CALL_STATE"
  /\ last.state = "RESUME"
  /\ call_state = "INCALL"
  /\ mcat_calls = <<"RESUME">>
  /\ plat_calls = <<"enter_call", "update_route", "mcat_changed_h">>


(***************************************************************************)
(* SpecMedia: PLAY, PAUSE and STOP messages that name the registered       *)
(* call-media ringtone or a sound that was never registered, between       *)
(* call-state and headset messages, each handled as soon as it is posted.  *)
(* The route-changed handler is registered and the platform may ignore or  *)
(* refuse a switch.                                                        *)
(***************************************************************************)

ServePauseMedia == \E n \in Names : Serve(MsgPause(n))

NextMedia ==
  \/ ServePlayMedia
  \/ ServePauseMedia
  \/ ServeStopMedia
  \/ ServeCallState
  \/ ServeHeadsetConnected

SpecMedia == InitRouter /\ [][NextMedia]_vars

(***************************************************************************)
(* C27                                                                     *)
(***************************************************************************)

\* C27: handling a PLAY, PAUSE or STOP message whose name is not in the
\* registry changes nothing: the playing sounds, the call mode of the
\* platform, the router fields, the route, call_state and the registry
\* stay, no platform call is made, neither handler is called, and the
\* audio thread keeps running.
C27_UnknownSound ==
  [][HandlerStep /\ last'.id \in {"PLAY_MEDIA", "PAUSE_MEDIA", "STOP_MEDIA"}
       /\ ~DictLookup(sounds, last'.name)
     => /\ UNCHANGED <<sounds, playing, plat_incall, router, plat_route,
                       call_state, prev_call_state, intensity_thres>>
        /\ running'
        /\ ~upd'.called
        /\ upd'.enable_calls = <<>>
        /\ plat_calls' = <<>>
        /\ rc_calls' = <<>>
        /\ mcat_calls' = <<>>]_vars

\* C27 witness: a STOP naming the unregistered sound was handled while the
\* ringtone was playing outside a call with the headset plugged; the
\* ringtone plays on, call mode is kept and the thread is running.
C27_Witness ==
  /\ last.id = "STOP_MEDIA"
  /\ ~DictLookup(sounds, last.name)
  /\ call_state = "NORMAL"
  /\ playing = {"ringtone"}
  /\ was_playing = {"ringtone"}
  /\ plat_incall
  /\ router.wired_hs_is_connected
  /\ running


(***************************************************************************)
(* SpecCallMedia: PLAY and STOP messages for a call-media ringtone and a   *)
(* sound of priority 1 that is not call media, between routing messages;   *)
(* no CALL_STATE message is posted, so call_state stays NORMAL.  Each      *)
(* message is handled as soon as it is posted.                             *)
(***************************************************************************)

CallMediaSounds ==
  [n \in Names |-> IF n = "ringtone" THEN SoundRec(FALSE, TRUE, 0, 0, TRUE)
                   ELSE SoundRec(TRUE, FALSE, 0, 1, FALSE)]

InitCallMedia ==
  \E r \in InitRoutes : InitWith(CallMediaSounds, r, TRUE, TRUE)

NextCallMedia ==
  \/ ServePlayMedia
  \/ ServeStopMedia
  \/ ServeHeadsetConnected
  \/ ServeBtDeviceConnected
  \/ ServeEnableSpeaker

SpecCallMedia == InitCallMedia /\ [][NextCallMedia]_vars

(***************************************************************************)
(* C25                                                                     *)
(***************************************************************************)

\* C25: in a run without CALL_STATE messages, whenever no call-media sound
\* is playing the platform is not in call mode.
C25_CallModeLeft ==
  (\A n \in playing : ~sounds[n].is_call_media) => ~plat_incall


(***************************************************************************)
(* C28                                                                     *)
(***************************************************************************)

\* C28: whatever functions the calling thread calls, StartPlayout creates
\* its thread only when no playout thread exists, and creates none when the
\* device is already playing; the same for StartRecording and the record
\* thread; and when StopPlayout, StopRecording or Terminate has returned,
\* the thread concerned has exited and has been joined, so it calls the
\* transport no more.
C28_OneThreadEach ==
  /\ [][ctl # <<>> /\ Head(ctl) = "create_play" /\ ctl' = Tail(ctl)
        => IF is_playing_ THEN UNCHANGED <<play_pc, play_tid_, play_cb>>
           ELSE play_pc = "none" /\ play_pc' = "check"]_vars
  /\ [][ctl # <<>> /\ Head(ctl) = "create_rec" /\ ctl' = Tail(ctl)
        => IF is_recording_ THEN UNCHANGED <<rec_pc, rec_tid_, rec_cb>>
           ELSE rec_pc = "none" /\ rec_pc' = "check"]_vars
  /\ [](ctl = <<>> /\ ctl_op \in {"StopPlayout", "Terminate"}
        => play_pc = "none")
  /\ [](ctl = <<>> /\ ctl_op \in {"StopRecording", "Terminate"}
        => rec_pc = "none")

\* C28 witness: Terminate has returned on a device whose two threads had
\* both called the transport; neither thread exists any more.
C28_Witness ==
  /\ ctl = <<>>
  /\ ctl_op = "Terminate"
  /\ play_cb # 0
  /\ rec_cb # 0
  /\ play_tid_ = 0
  /\ rec_tid_ = 0
  /\ play_pc = "none"
  /\ rec_pc = "none"
  /\ ~is_playing_
  /\ ~is_recording_


(***************************************************************************)
(* SpecHandler: a caller thread registers route-changed handlers while the *)
(* audio thread is at the end of update_route.  The k-th registration      *)
(* passes a handler (NULL or not) and its own argument k.  The two fields  *)
(* are plain members written and read without a lock, so every statement   *)
(* of the caller can fall between any two reads of the audio thread, and   *)
(* the two loads of the call of line 379 can be made in either order.      *)
(* What update_route does before line 378 touches neither field.           *)
(***************************************************************************)

\* the number of registrations made in a run
MaxRegistrations == 3

\* everything but the two fields and the positions of the two threads
handler_frame == <<mq, running, mgr_vars, plat_reliable, posted, lost,
                   obs_vars, life_vars, mf_vars, dev_vars>>

\* mediamgr_register_route_change_h, line 538: mm->route_changed_h = handler
\* (h: the handler is not NULL)
RegisterStoreHandler(h) ==
  /\ reg_pc = "idle"
  /\ registrations < MaxRegistrations
  /\ registrations' = registrations + 1
  /\ route_changed_h' = h
  /\ route_changed_reg' = registrations + 1
  /\ reg_pc' = "arg"
  /\ UNCHANGED <<route_changed_arg, ur_pc, ur_h, ur_arg, rh_called>>
  /\ UNCHANGED handler_frame

\* mediamgr_register_route_change_h, line 539: mm->route_changed_arg = arg
RegisterStoreArg ==
  /\ reg_pc = "arg"
  /\ route_changed_arg' = registrations
  /\ reg_pc' = "idle"
  /\ UNCHANGED <<route_changed_h, route_changed_reg, registrations, ur_pc,
                 ur_h, ur_arg, rh_called>>
  /\ UNCHANGED handler_frame

\* update_route, line 378: if (mm->route_changed_h)
UpdateRouteTest ==
  /\ running
  /\ ur_pc = "idle"
  /\ ur_pc' = IF route_changed_h THEN "tested" ELSE "idle"
  /\ rh_called' = <<>>
  /\ UNCHANGED <<route_changed_h, route_changed_reg, route_changed_arg,
                 registrations, reg_pc, ur_h, ur_arg>>
  /\ UNCHANGED handler_frame

\* what update_route passes on once both loads of line 379 are made
UpdateRouteCall(h, arg) == <<h[1], h[2], arg>>

\* update_route, line 379: the load of mm->route_changed_h for the call
UpdateRouteLoadHandler ==
  /\ ur_pc \in {"tested", "arg_loaded"}
  /\ ur_h' = <<route_changed_h, route_changed_reg>>
  /\ IF ur_pc = "tested"
       THEN ur_pc' = "handler_loaded" /\ UNCHANGED rh_called
       ELSE ur_pc' = "idle" /\ rh_called' = UpdateRouteCall(ur_h', ur_arg)
  /\ UNCHANGED <<route_changed_h, route_changed_reg, route_changed_arg,
                 registrations, reg_pc, ur_arg>>
  /\ UNCHANGED handler_frame

\* update_route, line 379: the load of mm->route_changed_arg for the call
UpdateRouteLoadArg ==
  /\ ur_pc \in {"tested", "handler_loaded"}
  /\ ur_arg' = route_changed_arg
  /\ IF ur_pc = "tested"
       THEN ur_pc' = "arg_loaded" /\ UNCHANGED rh_called
       ELSE ur_pc' = "idle" /\ rh_called' = UpdateRouteCall(ur_h, ur_arg')
  /\ UNCHANGED <<route_changed_h, route_changed_reg, route_changed_arg,
                 registrations, reg_pc, ur_h>>
  /\ UNCHANGED handler_frame

NextHandler ==
  \/ \E h \in BOOLEAN : RegisterStoreHandler(h)
  \/ RegisterStoreArg
  \/ UpdateRouteTest
  \/ UpdateRouteLoadHandler
  \/ UpdateRouteLoadArg

InitHandler == InitWith(EmptyDict, "EARPIECE", TRUE, FALSE)

SpecHandler == InitHandler /\ [][NextHandler]_vars

(***************************************************************************)
(* C21                                                                     *)
(***************************************************************************)

\* C21: whenever update_route calls the route-changed handler, the handler
\* is not NULL and the argument passed is the one of the registration that
\* stored the handler.
C21_HandlerWithItsArgument ==
  rh_called # <<>> => rh_called[1] /\ rh_called[2] = rh_called[3]

=============================================================================
